---- MODULE Spec2Model ----
(***************************************************************************)
(* expo-native-dependency-hash: the fingerprint engine (getCurrentHash and *)
(* what it calls) and the reconciliation operations (verify / update) of   *)
(* src/src/index.ts, with the legacy rn-native-hash generate / verify.     *)
(*                                                                         *)
(* A JavaScript string is a sequence of tokens (each token a TLA+ string   *)
(* standing for a run of characters); a token boundary falls wherever the  *)
(* code tests a prefix or a suffix.  md5 is taken collision-free: hashIt   *)
(* wraps its input between two reserved tokens, which is injective.        *)
(* A JSON object is a sequence of entries in insertion order.              *)
(***************************************************************************)
EXTENDS Integers, Sequences, FiniteSets, TLC

VARIABLES
    files,        \* tracked files of the project at rootDir: path -> text (utf8)
    expoConfig,   \* app.json's "expo" object, as `expo config` renders it
    nodeModules,  \* packages directory -> its entries in readdir order
    packageJson,  \* the library's own package.json: nativeDependencyHash fields
    legacy,       \* storage of the legacy tool: sidecar file, package.json property, eas.json
    result,       \* what the last operation returned / decided
    writes,       \* number of writeFile calls made by the last operation
    lastOp,       \* the last operation or change to the project
    prev,         \* the project (files, expoConfig, nodeModules) before the last change
    changes,      \* number of changes made to the project so far
    kind,         \* what the project is: a library, an Expo app, or an app using the legacy tool
    env,          \* what the project's surroundings answer: `expo config`, reading package.json
    tasks         \* the concurrent work in flight inside one call: promises and what they hold

vars ==
    <<files, expoConfig, nodeModules, packageJson, legacy, result, writes, lastOp, prev, changes, kind, env,
      tasks>>

\* The project as it is now: what the fingerprint is computed from, the
\* project's own package.json and the legacy tool's storage.
Project ==
    [ files |-> files, expoConfig |-> expoConfig, nodeModules |-> nodeModules, env |-> env,
      packageJson |-> packageJson, legacy |-> legacy ]

\* ------------------------------------------------------------------ bounds

MaxChanges == 2

\* ------------------------------------------------------------------ strings

Platforms == {"ios", "android", "all"}

Undefined == <<"undefined">>

Truthy(v) == v # Undefined /\ v # <<>>

RECURSIVE Join(_, _)
Join(parts, sep) ==
    IF Len(parts) = 0 THEN <<>>
    ELSE IF Len(parts) = 1 THEN parts[1]
    ELSE LET rest == Join(Tail(parts), sep) IN parts[1] \o sep \o rest

startsWith(f, prefix) == Len(f) >= 1 /\ f[1] = prefix

endsWith(f, suffix) == Len(f) >= 1 /\ f[Len(f)] = suffix

IsPrefixAt(s, pat, i) ==
    /\ i + Len(pat) - 1 <= Len(s)
    /\ \A j \in 1..Len(pat) : s[i + j - 1] = pat[j]

indexOf(s, pat) ==
    IF \E i \in 1..Len(s) : IsPrefixAt(s, pat, i)
    THEN CHOOSE i \in 1..Len(s) : IsPrefixAt(s, pat, i) /\ \A j \in 1..(i - 1) : ~IsPrefixAt(s, pat, j)
    ELSE 0

\* String.prototype.replace(pattern: string, ''): the first occurrence only
replaceFirst(s, pat) ==
    LET i == indexOf(s, pat) IN
    IF Len(pat) = 0 \/ i = 0 THEN s
    ELSE SubSeq(s, 1, i - 1) \o SubSeq(s, i + Len(pat), Len(s))

hashIt(str) == <<"md5(">> \o str \o <<")">>

\* process.exit(1) was called: the process ended with code 1 and the function
\* gave no value to its caller.
ProcessExit == <<"process.exit(1)">>

\* ------------------------------------------------------------------ files

\* The paths a project may track, in the order `git ls-tree -r HEAD --name-only`
\* prints them (bytewise).
AllPaths == <<
    <<"Lib", ".podspec">>,
    <<"README.md">>,
    <<"android", "/", "build.gradle">>,
    <<"android", "/", "x", ".podspec">>,
    <<"app.", "plugin.js">>,
    <<"ios", "-notes.md">>,
    <<"ios", "/", "App.m">> >>

PathSet == {AllPaths[i] : i \in 1..Len(AllPaths)}

Texts == {<<"t1">>, <<"t2">>}

\* The tree of the process's current working directory when it is not rootDir.
ElsewherePaths == << <<"tools", "/", "x.", "plugin.js">> >>

ElsewhereFiles == [p \in {ElsewherePaths[1]} |-> <<"t1">>]

\* dir is "rootDir" or "." ; "." is the process's current working directory
Tree(pr, dir, cwd) == IF dir = "." /\ cwd # "rootDir" THEN ElsewhereFiles ELSE pr.files

gitLsTree(pr, dir, cwd) ==
    LET all == IF dir = "." /\ cwd # "rootDir" THEN ElsewherePaths ELSE AllPaths
        keep(p) == p \in DOMAIN Tree(pr, dir, cwd)
    IN SelectSeq(all, keep)

\* readdir(dir): the names of the entries directly under dir
readdirRoot(pr, dir, cwd) ==
    {IF Len(p) >= 2 /\ p[2] = "/" THEN <<p[1]>> ELSE p : p \in DOMAIN Tree(pr, dir, cwd)}

readFile(pr, dir, cwd, p) == Tree(pr, dir, cwd)[p]

\* hashFiles without the files' contents: the paths alone.
hashFileNames(pr, dir, cwd, relativeFilePaths) == hashIt(Join(relativeFilePaths, <<",">>))

hashFiles(pr, dir, cwd, relativeFilePaths) ==
    LET nativeFilesHashes ==
            [i \in 1..Len(relativeFilePaths) |->
                relativeFilePaths[i] \o <<"@">> \o hashIt(readFile(pr, dir, cwd, relativeFilePaths[i]))]
    IN hashIt(Join(nativeFilesHashes, <<",">>))

\* hasNativeVersion without the platform test: either folder counts.
hasAnyNativeVersion(platform, subDirs) == <<"ios">> \in subDirs \/ <<"android">> \in subDirs

hasNativeVersion(platform, subDirs) ==
    IF platform = "ios" THEN <<"ios">> \in subDirs
    ELSE IF platform = "android" THEN <<"android">> \in subDirs
    ELSE <<"ios">> \in subDirs \/ <<"android">> \in subDirs

includeNativeFile(platform, f) ==
    LET includeBecauseIos == platform # "android" /\ (startsWith(f, "ios") \/ endsWith(f, ".podspec"))
        includeBecauseAndroid == platform # "ios" /\ startsWith(f, "android")
    IN includeBecauseIos \/ includeBecauseAndroid

getFolderHash(pr, platform, dir, cwd) ==
    IF ~hasNativeVersion(platform, readdirRoot(pr, dir, cwd)) THEN <<>>
    ELSE LET keep(f) == includeNativeFile(platform, f)
         IN hashFiles(pr, dir, cwd, SelectSeq(gitLsTree(pr, dir, cwd), keep))

includeBecauseAppPlugin(f) == endsWith(f, "plugin.js") \/ endsWith(f, "plugin.ts")

getAppPluginHash(pr, dir, cwd) ==
    hashFiles(pr, dir, cwd, SelectSeq(gitLsTree(pr, dir, cwd), includeBecauseAppPlugin))

\* ------------------------------------------------------------------ modules

\* A directory entry of a packages directory:
\*   [name, version, ndh, subDirs, subs]
\* name is the entry's name (<<".", "bin">>, <<"@", "scope">>, <<"lib-a">>), version
\* and ndh (nativeDependencyHash, <<>> for a field that is absent or empty) come
\* from its package.json, subDirs is readdir of the package root, subs are the
\* entries inside a scope.

NoHash == [ios |-> <<>>, android |-> <<>>, all |-> <<>>]

\* Names in the order localeCompare puts them.
Collation == << <<"@", "scope", "/", "ios">>, <<"@", "scope", "/", "lib-c">>, <<"lib-a">>, <<"lib-b">> >>

Rank(name) == CHOOSE i \in 1..Len(Collation) : Collation[i] = name

localeCompare(a, b) == Rank(a) - Rank(b)

RECURSIVE Flat(_)
Flat(ss) == IF Len(ss) = 0 THEN <<>> ELSE LET rest == Flat(Tail(ss)) IN ss[1] \o rest

\* Array.prototype.sort is stable: an element goes after the elements already
\* placed that the comparator does not put after it.
insertByName(sorted, m) ==
    LET n == Cardinality({i \in 1..Len(sorted) : localeCompare(sorted[i].name, m.name) <= 0})
    IN SubSeq(sorted, 1, n) \o <<m>> \o SubSeq(sorted, n + 1, Len(sorted))

\* getModules without the sort: the list in the order of the directory listings.
unsorted(ms) == ms

RECURSIVE sortByName(_)
sortByName(ms) ==
    IF Len(ms) = 0 THEN <<>>
    ELSE LET front == sortByName(SubSeq(ms, 1, Len(ms) - 1))
         IN insertByName(front, ms[Len(ms)])

Module(dir, name, e) ==
    [ name |-> name,
      path |-> <<dir, "/">> \o name,
      version |-> e.version,
      isNativeAndroid |-> hasNativeVersion("android", e.subDirs),
      isNativeIOS |-> hasNativeVersion("ios", e.subDirs),
      nativeDependencyHash |-> e.ndh ]

modulesOfEntry(dir, e) ==
    IF startsWith(e.name, ".") THEN <<>>
    ELSE IF startsWith(e.name, "@") THEN
        LET notHidden(s) == ~startsWith(s.name, ".")
            submodules == SelectSeq(e.subs, notHidden)
        IN [i \in 1..Len(submodules) |->
                Module(dir, e.name \o <<"/">> \o submodules[i].name, submodules[i])]
    ELSE << Module(dir, e.name, e) >>

\* readPackageJson with a catch that returns instead of ending the process.
readPackageJsonReturns(e) == FALSE

\* readPackageJson's catch: the manifest cannot be read or parsed, and the
\* process is ended.
readPackageJsonExits(e) == ~e.readable

\* The package manifests read for one directory entry.
entryExits(e) ==
    IF startsWith(e.name, ".") THEN FALSE
    ELSE IF startsWith(e.name, "@")
        THEN \E i \in 1..Len(e.subs) : ~startsWith(e.subs[i].name, ".") /\ readPackageJsonExits(e.subs[i])
    ELSE readPackageJsonExits(e)

\* getModules's catch (a directory that cannot be listed) and the exits of
\* readPackageJson inside it: the scan ends the process.
getModulesExits(pr, nodeModulePaths) ==
    \E d \in 1..Len(nodeModulePaths) :
        \/ nodeModulePaths[d] \notin DOMAIN pr.nodeModules
        \/ \E i \in 1..Len(pr.nodeModules[nodeModulePaths[d]]) :
                entryExits(pr.nodeModules[nodeModulePaths[d]][i])

getModules(pr, nodeModulePaths) ==
    LET perDir == [d \in 1..Len(nodeModulePaths) |->
                    LET dir == nodeModulePaths[d]
                        relativePaths == pr.nodeModules[dir]
                    IN Flat([i \in 1..Len(relativePaths) |-> modulesOfEntry(dir, relativePaths[i])])]
    IN sortByName(Flat(perDir))

\* getModuleIdentity without the overrides: always name@version.
identityFromVersion(platform, m) == m.name \o <<"@">> \o m.version

getModuleIdentity(platform, m) ==
    IF platform = "all" /\ Truthy(m.nativeDependencyHash.all)
        THEN m.name \o <<"@">> \o m.nativeDependencyHash.all
    ELSE IF platform = "ios" /\ Truthy(m.nativeDependencyHash.ios)
        THEN m.name \o <<"@">> \o m.nativeDependencyHash.ios
    ELSE IF platform = "android" /\ Truthy(m.nativeDependencyHash.android)
        THEN m.name \o <<"@">> \o m.nativeDependencyHash.android
    ELSE m.name \o <<"@">> \o m.version

isNativeFor(platform, m) ==
    IF platform = "ios" THEN m.isNativeIOS
    ELSE IF platform = "android" THEN m.isNativeAndroid
    ELSE m.isNativeAndroid \/ m.isNativeIOS

getModulesForPlatform(pr, platform, nodeModulePaths) ==
    LET keep(m) == isNativeFor(platform, m)
    IN SelectSeq(getModules(pr, nodeModulePaths), keep)

\* ------------------------------------------------------------------ config

\* A JSON object is a sequence of entries [k, t, s, o] in insertion order: key k,
\* and either a string (t = "s", the string s) or an object (t = "o", entries o).

Str(k, s) == [k |-> k, t |-> "s", s |-> s, o |-> <<>>]

Obj(k, o) == [k |-> k, t |-> "o", s |-> <<>>, o |-> o]

HasKey(o, k) == \E i \in 1..Len(o) : o[i].k = k

Get(o, k) == o[CHOOSE i \in 1..Len(o) : o[i].k = k]

\* o?.[k] read as a string: undefined when the key is missing
GetStr(o, k) == IF HasKey(o, k) /\ Get(o, k).t = "s" THEN Get(o, k).s ELSE Undefined

\* o?.[k] read as an object: no keys when the key is missing
GetObj(o, k) == IF HasKey(o, k) /\ Get(o, k).t = "o" THEN Get(o, k).o ELSE <<>>

\* o[k] = e : an existing key keeps its place, a new key goes last
\* An assignment that drops what the object held: { k: v } without the spread.
PutAlone(o, e) == <<e>>

Put(o, e) ==
    IF HasKey(o, e.k) THEN [i \in 1..Len(o) |-> IF o[i].k = e.k THEN e ELSE o[i]]
    ELSE Append(o, e)

Delete(o, k) == LET keep(e) == e.k # k IN SelectSeq(o, keep)

androidPropsToHash == {"permissions", "blockedPermissions", "jsEngine"}

iosPropsToHash == {"entitlements", "infoPlist", "jsEngine"}

expoPropsToHash == {"android", "ios", "plugins", "jsEngine"}

\* pruneTo without the pruning: every property is kept.
keepEverything(o, propsToHash) == o

pruneTo(o, propsToHash) == LET keep(e) == e.k \in propsToHash IN SelectSeq(o, keep)

\* fast-safe-stringify's default export: JSON.stringify's output, keys in
\* insertion order.
RECURSIVE stringify(_)
stringify(o) ==
    LET member(e) == <<"\"", e.k, "\"", ":">> \o
                        (IF e.t = "s" THEN <<"\"">> \o e.s \o <<"\"">> ELSE stringify(e.o))
    IN <<"{">> \o Join([i \in 1..Len(o) |-> member(o[i])], <<",">>) \o <<"}">>

readExpoConfig(pr) == pr.expoConfig

\* readExpoConfig's catch: the command failed or printed no JSON, and the
\* process is ended.
readExpoConfigExits(pr) == pr.env.config = "fails"

\* The JSON printed has no exp: readExpoConfig returns undefined.
readExpoConfigUndefined(pr) == pr.env.config = "noExp"

redactEntitlements(entitlements, bundleIdentifier) ==
    [i \in 1..Len(entitlements) |->
        LET e == entitlements[i] IN
        IF e.t = "s" /\ Truthy(e.s) /\ Truthy(bundleIdentifier)
        THEN Str(e.k, replaceFirst(e.s, bundleIdentifier))
        ELSE e]

pruneAndroid(appJson, platform) ==
    IF platform = "ios" THEN Delete(appJson, "android")
    ELSE IF HasKey(appJson, "android") /\ Get(appJson, "android").t = "o"
        THEN Put(appJson, Obj("android", pruneTo(GetObj(appJson, "android"), androidPropsToHash)))
    ELSE appJson

pruneIos(appJson, platform) ==
    IF platform = "android" THEN Delete(appJson, "ios")
    ELSE IF HasKey(appJson, "ios") /\ Get(appJson, "ios").t = "o"
        THEN LET ios == GetObj(appJson, "ios")
                 bundleIdentifier == GetStr(ios, "bundleIdentifier")
                 kept == pruneTo(ios, iosPropsToHash)
                 done == [i \in 1..Len(kept) |->
                            IF kept[i].k = "entitlements" /\ kept[i].t = "o"
                            THEN Obj("entitlements", redactEntitlements(kept[i].o, bundleIdentifier))
                            ELSE kept[i]]
             IN Put(appJson, Obj("ios", done))
    ELSE appJson

\* Reading a property of undefined throws; the catch leaves appJsonContent ''.
getAppJsonHash(pr, platform) ==
    IF readExpoConfigUndefined(pr) THEN <<>>
    ELSE LET appJson == pruneTo(readExpoConfig(pr), expoPropsToHash)
             appJsonStr == stringify(pruneIos(pruneAndroid(appJson, platform), platform))
         IN hashIt(appJsonStr)

\* ------------------------------------------------------------------ fingerprint

\* The options of one invocation: the flags of GenerateHashOptions, and the
\* process's current working directory ("rootDir" when it is the project root).
NodeModulePathsChoices ==
    { <<"node_modules">>, <<"node_modules", "nm2">>, <<"nm2", "node_modules">> }

Options ==
    [ skipNodeModules : BOOLEAN, skipAppJson : BOOLEAN, skipLocalNativeFolders : BOOLEAN,
      nodeModulePaths : NodeModulePathsChoices, cwd : {"rootDir", "elsewhere"} ]

GENERATE_HASH_DEFAULTS ==
    [ skipNodeModules |-> FALSE, verbose |-> FALSE, skipAppJson |-> FALSE,
      skipLocalNativeFolders |-> TRUE, nodeModulePaths |-> <<"node_modules">> ]

\* verbose = GENERATE_HASH_DEFAULTS.verbose when the options do not give it
Verbose(opts) == IF "verbose" \in DOMAIN opts THEN opts.verbose ELSE GENERATE_HASH_DEFAULTS.verbose

\* What getCurrentHash and the functions it calls print: one token per
\* console.log reached, nothing unless verbose.
narration(pr, platform, opts) ==
    IF ~Verbose(opts) THEN <<>>
    ELSE <<"Getting hash for platform">>
        \o (IF opts.skipLocalNativeFolders THEN <<>>
            ELSE IF hasNativeVersion(platform, readdirRoot(pr, "rootDir", opts.cwd))
                THEN <<"Reading native files from git...">>
            ELSE <<"Skipping native files because there are no iOS/Android folders">>)
        \o (IF opts.skipAppJson THEN <<>>
            ELSE IF readExpoConfigExits(pr) THEN <<"Failed to read Expo Config">>
            ELSE IF readExpoConfigUndefined(pr) THEN <<"Expo Config", "TypeError">>
            ELSE <<"Expo Config">>)
        \o (IF (~opts.skipAppJson /\ readExpoConfigExits(pr))
                \/ (~opts.skipNodeModules /\ getModulesExits(pr, opts.nodeModulePaths))
            THEN <<>> ELSE <<"Generating hash from string">>)

\* A fingerprint into which the verbose flag has leaked.
getCurrentHashOfFlags(pr, platform, opts) ==
    hashIt(<<"verbose:", IF Verbose(opts) THEN "true" ELSE "false">>)

getCurrentHash(pr, platform, opts) ==
    IF \/ ~opts.skipAppJson /\ readExpoConfigExits(pr)
       \/ ~opts.skipNodeModules /\ getModulesExits(pr, opts.nodeModulePaths)
    THEN ProcessExit
    ELSE
    LET localNativeFoldersHash ==
            IF opts.skipLocalNativeFolders THEN <<>> ELSE getFolderHash(pr, platform, "rootDir", opts.cwd)
        appJsonContent == IF opts.skipAppJson THEN <<>> ELSE getAppJsonHash(pr, platform)
        nativeModules ==
            IF opts.skipNodeModules THEN <<>>
            ELSE getModulesForPlatform(pr, platform, opts.nodeModulePaths)
        appPlugins == IF opts.skipLocalNativeFolders THEN <<>> ELSE getAppPluginHash(pr, ".", opts.cwd)
        nativeModuleIdentities ==
            [i \in 1..Len(nativeModules) |-> getModuleIdentity(platform, nativeModules[i])]
        stringToHashFrom ==
            <<"app.json@">> \o appJsonContent \o <<";local@">> \o localNativeFoldersHash
                \o <<";">> \o Join(nativeModuleIdentities, <<",">>) \o <<";plugins@">> \o appPlugins
    IN hashIt(stringToHashFrom)

generateHashes(pr, opts) ==
    [ ios |-> getCurrentHash(pr, "ios", opts),
      android |-> getCurrentHash(pr, "android", opts),
      all |-> getCurrentHash(pr, "all", opts) ]

\* ------------------------------------------------------------------ the project

Versions == {<<"1.0.0">>, <<"2.0.0">>}

Overrides == {<<>>, <<"hX">>, <<"hY">>}

Package(name, version, ndh, subDirs) ==
    [ name |-> name, version |-> version, ndh |-> ndh, subDirs |-> subDirs, subs |-> <<>>,
      readable |-> TRUE ]

Scope(name, subs) ==
    [ name |-> name, version |-> <<>>, ndh |-> NoHash, subDirs |-> {}, subs |-> subs,
      readable |-> FALSE ]

InitNodeModules ==
    [ d \in {"node_modules", "nm2"} |->
        IF d = "node_modules" THEN
            << Package(<<".", "bin">>, <<>>, NoHash, {}),
               Package(<<"lib-a">>, <<"1.0.0">>, NoHash, {<<"ios">>, <<"android">>, <<"package.json">>}),
               Package(<<"lib-b">>, <<"1.0.0">>, [ios |-> <<"hX">>, android |-> <<"hY">>, all |-> <<>>],
                       {<<"android">>, <<"package.json">>}),
               Scope(<<"@", "scope">>,
                     << Package(<<"lib-c">>, <<"1.0.0">>, NoHash, {<<"ios">>, <<"package.json">>}) >>) >>
        ELSE
            << Package(<<"lib-a">>, <<"2.0.0">>, NoHash, {<<"ios">>, <<"android">>, <<"package.json">>}) >> ]

\* Packages are addressed by <<directory, entry name, name inside the scope or <<>> >>.
PackageRefs ==
    { <<"node_modules", <<"lib-a">>, <<>> >>, <<"node_modules", <<"lib-b">>, <<>> >>,
      <<"node_modules", <<"@", "scope">>, <<"lib-c">> >>, <<"nm2", <<"lib-a">>, <<>> >> }

IndexOfName(entries, name) == CHOOSE i \in 1..Len(entries) : entries[i].name = name

PackageIn(nm, r) ==
    LET e == nm[r[1]][IndexOfName(nm[r[1]], r[2])]
    IN IF r[3] = <<>> THEN e ELSE e.subs[IndexOfName(e.subs, r[3])]

PackageAt(r) == PackageIn(nodeModules, r)

WithPackage(r, p) ==
    LET i == IndexOfName(nodeModules[r[1]], r[2])
    IN IF r[3] = <<>> THEN [nodeModules EXCEPT ![r[1]][i] = p]
       ELSE [nodeModules EXCEPT ![r[1]][i].subs[IndexOfName(nodeModules[r[1]][i].subs, r[3])] = p]

EntitlementChars == {"a", "b"}

MaxEntLen == 2

EntitlementValues ==
    UNION {[1..n -> EntitlementChars] : n \in 0..MaxEntLen}

BundleIdentifiers == {<<"a">>, <<"a", "b">>}

Values == {<<"v1">>, <<"v2">>}

InitExpoConfig ==
    << Str("name", <<"v1">>),
       Str("plugins", <<"v1">>),
       Obj("ios", << Str("bundleIdentifier", <<"a">>),
                     Str("buildNumber", <<"v1">>),
                     Obj("entitlements", << Str("group", <<"b", "a">>) >>) >>),
       Obj("android", << Str("permissions", <<"v1">>),
                         Str("versionCode", <<"v1">>) >>) >>

InitFiles ==
    [ p \in PathSet \ { <<"android", "/", "x", ".podspec">>, <<"ios", "-notes.md">> } |-> <<"t1">> ]

InitPackageJson == << Str("name", <<"lib">>), Str("version", <<"1.0.0">>) >>

InitLegacy ==
    [ file |-> [exists |-> FALSE, lines |-> <<>>],
      eas |-> << Obj("production", << Str("releaseChannel", <<>>) >>),
                 Obj("preview", << Str("distribution", <<"internal">>) >>) >> ]

\* `npx expo config --json` prints the config ("ok"), fails or prints no JSON
\* ("fails"), or prints JSON that has no exp ("noExp"); the project's own
\* package.json can be read and parsed ("ok") or not ("fails").
InitEnv == [config |-> "ok", packageJson |-> "ok"]

NoRef == <<"", <<>>, <<>> >>

NoOptions == [none |-> TRUE]

\* What was done last: a change to the project (op, and the field k, path p or
\* package ref it touched) or an operation of the tool (op, its options o, and
\* follows: the operation run just before it with the same options, if any).
Op(op, k, p, ref) == [op |-> op, k |-> k, p |-> p, ref |-> ref, o |-> NoOptions, follows |-> ""]

NotFound == [valueExists |-> FALSE, hasChanged |-> FALSE]

NoResult == [valueExists |-> FALSE, hasChanged |-> FALSE, hashes |-> NoHash, wrote |-> NoHash, exit |-> 0]

Kinds == {"library", "expo-app", "legacy-app"}

\* No call is in flight.
Idle == [op |-> "none"]

Init ==
    /\ kind \in Kinds
    /\ files = InitFiles
    /\ expoConfig = InitExpoConfig
    /\ nodeModules = InitNodeModules
    /\ packageJson = InitPackageJson
    /\ legacy = InitLegacy
    /\ result = NoResult
    /\ writes = 0
    /\ lastOp = Op("init", "", <<>>, NoRef)
    /\ prev = [ files |-> InitFiles, expoConfig |-> InitExpoConfig, nodeModules |-> InitNodeModules,
                env |-> InitEnv, packageJson |-> InitPackageJson, legacy |-> InitLegacy ]
    /\ changes = 0
    /\ env = InitEnv
    /\ tasks = Idle

\* ------------------------------------------------------------------ changes to the project
\* What a developer, a package manager or an editor does to the project between
\* two runs of the tool.

Noted(op, k, p, ref) ==
    /\ changes < MaxChanges
    /\ changes' = changes + 1
    /\ lastOp' = Op(op, k, p, ref)
    /\ prev' = Project
    /\ UNCHANGED <<result, writes, kind, tasks>>

Changed(op, k, p, ref) == Noted(op, k, p, ref) /\ UNCHANGED env

EditFile ==
    \E p \in DOMAIN files : \E t \in Texts \ {files[p]} :
        /\ files' = [files EXCEPT ![p] = t]
        /\ Changed("EditFile", "", p, NoRef)
        /\ UNCHANGED <<expoConfig, nodeModules, packageJson, legacy>>

AddFile ==
    \E p \in PathSet \ DOMAIN files :
        /\ files' = [q \in DOMAIN files \cup {p} |-> IF q = p THEN <<"t1">> ELSE files[q]]
        /\ Changed("AddFile", "", p, NoRef)
        /\ UNCHANGED <<expoConfig, nodeModules, packageJson, legacy>>

RemoveFile ==
    \E p \in DOMAIN files :
        /\ files' = [q \in DOMAIN files \ {p} |-> files[q]]
        /\ Changed("RemoveFile", "", p, NoRef)
        /\ UNCHANGED <<expoConfig, nodeModules, packageJson, legacy>>

SetVersion ==
    \E r \in PackageRefs : \E v \in Versions \ {PackageAt(r).version} :
        /\ nodeModules' = WithPackage(r, [PackageAt(r) EXCEPT !.version = v])
        /\ Changed("SetVersion", "", <<>>, r)
        /\ UNCHANGED <<files, expoConfig, packageJson, legacy>>

SetOverride ==
    \E r \in PackageRefs : \E P \in Platforms : \E o \in Overrides \ {PackageAt(r).ndh[P]} :
        /\ nodeModules' = WithPackage(r, [PackageAt(r) EXCEPT !.ndh[P] = o])
        /\ Changed("SetOverride", P, <<>>, r)
        /\ UNCHANGED <<files, expoConfig, packageJson, legacy>>

\* The file system lists a directory in another order.
SwapEntries ==
    \E d \in DOMAIN nodeModules : \E i \in 1..(Len(nodeModules[d]) - 1) :
        /\ nodeModules' = [nodeModules EXCEPT ![d] =
                [j \in 1..Len(@) |-> IF j = i THEN @[i + 1] ELSE IF j = i + 1 THEN @[i] ELSE @[j]]]
        /\ Changed("SwapEntries", d, <<>>, NoRef)
        /\ UNCHANGED <<files, expoConfig, packageJson, legacy>>

SetTopField ==
    \E k \in {"name", "plugins"} : \E v \in Values \ {GetStr(expoConfig, k)} :
        /\ expoConfig' = Put(expoConfig, Str(k, v))
        /\ Changed("SetTopField", k, <<>>, NoRef)
        /\ UNCHANGED <<files, nodeModules, packageJson, legacy>>

IosFieldValues(k) == IF k = "bundleIdentifier" THEN BundleIdentifiers ELSE Values

SetIosField ==
    \E k \in {"bundleIdentifier", "buildNumber", "jsEngine"} :
    \E v \in IosFieldValues(k) \ {GetStr(GetObj(expoConfig, "ios"), k)} :
        /\ expoConfig' = Put(expoConfig, Obj("ios", Put(GetObj(expoConfig, "ios"), Str(k, v))))
        /\ Changed("SetIosField", k, <<>>, NoRef)
        /\ UNCHANGED <<files, nodeModules, packageJson, legacy>>

WithEntitlement(v) ==
    LET ios == GetObj(expoConfig, "ios")
        ent == Put(GetObj(ios, "entitlements"), Str("group", v))
    IN Put(expoConfig, Obj("ios", Put(ios, Obj("entitlements", ent))))

Entitlement == GetStr(GetObj(GetObj(expoConfig, "ios"), "entitlements"), "group")

SetEntitlement ==
    \E v \in EntitlementValues \ {Entitlement} :
        /\ expoConfig' = WithEntitlement(v)
        /\ Changed("SetEntitlement", "", <<>>, NoRef)
        /\ UNCHANGED <<files, nodeModules, packageJson, legacy>>

SetAndroidField ==
    \E k \in {"permissions", "versionCode"} :
    \E v \in Values \ {GetStr(GetObj(expoConfig, "android"), k)} :
        /\ expoConfig' = Put(expoConfig, Obj("android", Put(GetObj(expoConfig, "android"), Str(k, v))))
        /\ Changed("SetAndroidField", k, <<>>, NoRef)
        /\ UNCHANGED <<files, nodeModules, packageJson, legacy>>

\* The same configuration with the app's bundle identifier taken out of the
\* entitlement value, wherever it occurs.
RECURSIVE replaceAll(_, _)
replaceAll(s, pat) ==
    LET i == indexOf(s, pat) IN
    IF Len(pat) = 0 \/ i = 0 THEN s
    ELSE LET rest == replaceAll(SubSeq(s, i + Len(pat), Len(s)), pat)
         IN SubSeq(s, 1, i - 1) \o rest

BundleIdentifier == GetStr(GetObj(expoConfig, "ios"), "bundleIdentifier")

StripBundleIdentifier ==
    /\ Truthy(BundleIdentifier) /\ Truthy(Entitlement)
    /\ indexOf(Entitlement, BundleIdentifier) > 0
    /\ expoConfig' = WithEntitlement(replaceAll(Entitlement, BundleIdentifier))
    /\ Changed("StripBundleIdentifier", "", <<>>, NoRef)
    /\ UNCHANGED <<files, nodeModules, packageJson, legacy>>

\* The two neighbouring entries at i and i + 1 change places.
swapAt(o, i) ==
    [j \in 1..Len(o) |-> IF j = i THEN o[i + 1] ELSE IF j = i + 1 THEN o[i] ELSE o[j]]

\* The same configuration with two keys of one object written in the other
\* order: at the top level, or inside the ios or the android section.
SwapKeys ==
    \/ \E i \in 1..(Len(expoConfig) - 1) :
        /\ expoConfig' = swapAt(expoConfig, i)
        /\ Changed("SwapKeys", "", <<>>, NoRef)
        /\ UNCHANGED <<files, nodeModules, packageJson, legacy>>
    \/ \E k \in {"ios", "android"} : \E i \in 1..(Len(GetObj(expoConfig, k)) - 1) :
        /\ expoConfig' = Put(expoConfig, Obj(k, swapAt(GetObj(expoConfig, k), i)))
        /\ Changed("SwapKeys", k, <<>>, NoRef)
        /\ UNCHANGED <<files, nodeModules, packageJson, legacy>>

\* A package's manifest can no longer be read or parsed, or can again.
BreakManifest ==
    \E r \in PackageRefs :
        /\ r[1] \in DOMAIN nodeModules
        /\ nodeModules' = WithPackage(r, [PackageAt(r) EXCEPT !.readable = ~@])
        /\ Changed("BreakManifest", "", <<>>, r)
        /\ UNCHANGED <<files, expoConfig, packageJson, legacy>>

\* A packages directory is not there (packages not installed).
RemoveDirectory ==
    \E d \in DOMAIN nodeModules :
        /\ nodeModules' = [x \in DOMAIN nodeModules \ {d} |-> nodeModules[x]]
        /\ Changed("RemoveDirectory", d, <<>>, NoRef)
        /\ UNCHANGED <<files, expoConfig, packageJson, legacy>>

\* An ios or android entry appears in, or disappears from, a package's root.
ToggleNativeFolder ==
    \E r \in PackageRefs : \E f \in {<<"ios">>, <<"android">>} :
        /\ r[1] \in DOMAIN nodeModules
        /\ nodeModules' = WithPackage(r,
                [PackageAt(r) EXCEPT !.subDirs = IF f \in @ THEN @ \ {f} ELSE @ \cup {f}])
        /\ Changed("ToggleNativeFolder", f[1], <<>>, r)
        /\ UNCHANGED <<files, expoConfig, packageJson, legacy>>

\* What may appear inside a scope directory: a hidden file, and a package that
\* is named ios.
ScopedEntries ==
    { [Package(<<".", "DS_Store">>, <<>>, NoHash, {}) EXCEPT !.readable = FALSE],
      Package(<<"ios">>, <<"1.0.0">>, NoHash, {<<"android">>, <<"package.json">>}) }

AddScopedEntry ==
    \E d \in DOMAIN nodeModules : \E i \in 1..Len(nodeModules[d]) : \E e \in ScopedEntries :
        /\ startsWith(nodeModules[d][i].name, "@")
        /\ \A j \in 1..Len(nodeModules[d][i].subs) : nodeModules[d][i].subs[j].name # e.name
        /\ nodeModules' = [nodeModules EXCEPT ![d][i].subs = Append(@, e)]
        /\ Changed("AddScopedEntry", d, e.name, NoRef)
        /\ UNCHANGED <<files, expoConfig, packageJson, legacy>>

ChangeScan == BreakManifest \/ RemoveDirectory \/ ToggleNativeFolder \/ AddScopedEntry \/ SwapEntries

ConfigAnswers == {"ok", "fails", "noExp"}

\* `npx expo config` answers differently from now on.
ExpoConfigAnswers ==
    \E c \in ConfigAnswers \ {env.config} :
        /\ env' = [env EXCEPT !.config = c]
        /\ Noted("ExpoConfigAnswers", c, <<>>, NoRef)
        /\ UNCHANGED <<files, expoConfig, nodeModules, packageJson, legacy>>

ChangeFiles == EditFile \/ AddFile \/ RemoveFile

ChangeModules == SetVersion \/ SetOverride \/ SwapEntries

ChangeConfig ==
    \/ SetTopField \/ SetIosField \/ SetEntitlement \/ SetAndroidField
    \/ StripBundleIdentifier \/ SwapKeys \/ ExpoConfigAnswers

\* The fingerprint as a function of the tracked files, of the installed
\* packages and of the configuration: each specification walks one of them.
InitFingerprint == Init /\ kind = "expo-app"

SpecFiles == InitFingerprint /\ [][ChangeFiles]_vars

SpecModules == InitFingerprint /\ [][ChangeModules]_vars

SpecConfig == InitFingerprint /\ [][ChangeConfig]_vars

\* The scan of the packages directories, as what is installed changes.
SpecScan == InitFingerprint /\ [][ChangeScan]_vars

\* ------------------------------------------------------------------ claims on the fingerprint

UnderFolder(p, folder) == Len(p) >= 2 /\ p[1] = folder /\ p[2] = "/"

FileOps == {"EditFile", "AddFile", "RemoveFile"}

NativeOnlyFor(platform, r) ==
    LET other == IF platform = "ios" THEN "android" ELSE "ios"
    IN hasNativeVersion(platform, PackageAt(r).subDirs) /\ ~hasNativeVersion(other, PackageAt(r).subDirs)

\* The change just made is confined to inputs of one platform.
ConfinedTo(platform, op) ==
    \/ op.op \in FileOps /\ UnderFolder(op.p, platform)
    \/ platform = "android" /\ op.op = "SetAndroidField"
    \/ platform = "ios" /\ op.op \in {"SetIosField", "SetEntitlement"}
    \/ op.op = "SetVersion" /\ NativeOnlyFor(platform, op.ref)
    \/ op.op = "SetOverride" /\ op.k = platform /\ NativeOnlyFor(platform, op.ref)

SameDigest(platform, o) == getCurrentHash(Project, platform, o) = getCurrentHash(prev, platform, o)

\* C7 (as claimed): a change confined to Android-only inputs never changes the
\* ios digest, and a change confined to iOS-only inputs never changes the
\* android digest.
C7_PlatformIsolation ==
    \A o \in Options :
        /\ ConfinedTo("android", lastOp) => SameDigest("ios", o)
        /\ ConfinedTo("ios", lastOp) => SameDigest("android", o)

\* What the last change did to one package.
PackageBefore == PackageIn(prev.nodeModules, lastOp.ref)

PackageAfter == PackageAt(lastOp.ref)

Scans(o, dir) == \E i \in 1..Len(o.nodeModulePaths) : o.nodeModulePaths[i] = dir

EveryModule == getModules(Project, <<"node_modules", "nm2">>)

IdentityAsClaimed(P, m) ==
    IF Truthy(m.nativeDependencyHash[P])
    THEN m.name \o <<"@">> \o m.nativeDependencyHash[P]
    ELSE m.name \o <<"@">> \o m.version

OverrideReplaced(P) ==
    /\ lastOp.op = "SetOverride" /\ lastOp.k = P
    /\ Truthy(PackageBefore.ndh[P])

\* C5 (as claimed): for a module with an override for P, changing only its P
\* override changes the P digest (node modules included and the module's
\* directory scanned).
C5_OverrideChangesDigest ==
    \A P \in Platforms : \A o \in Options :
        (OverrideReplaced(P) /\ ~o.skipNodeModules /\ Scans(o, lastOp.ref[1]))
            => ~SameDigest(P, o)

\* C5 (amended): getModuleIdentity(P)(m) is name@override when m declares a
\* non-empty override for P and name@version otherwise; for a module with an
\* override for P, changing only its version leaves the P digest unchanged; and
\* when the module is native for P, is in a scanned directory and node modules
\* are not skipped, replacing its P override (by another override, or by none
\* when the version differs from the old override) changes the P digest.
C5_OverridePrecedence ==
    /\ \A P \in Platforms : \A i \in 1..Len(EveryModule) :
            getModuleIdentity(P, EveryModule[i]) = IdentityAsClaimed(P, EveryModule[i])
    /\ \A P \in Platforms : \A o \in Options :
        /\ (lastOp.op = "SetVersion" /\ Truthy(PackageBefore.ndh[P])) => SameDigest(P, o)
        /\ ( /\ OverrideReplaced(P)
             /\ Truthy(PackageAfter.ndh[P]) \/ PackageAfter.version # PackageBefore.ndh[P]
             /\ hasNativeVersion(P, PackageAfter.subDirs)
             /\ ~o.skipNodeModules /\ Scans(o, lastOp.ref[1]) )
            => ~SameDigest(P, o)

\* C5's case: the android override of a module native for android has just
\* been replaced by another override.
C5_Witness ==
    /\ OverrideReplaced("android")
    /\ Truthy(PackageAfter.ndh["android"])
    /\ hasNativeVersion("android", PackageAfter.subDirs)

IsPermutation(a, b) ==
    /\ Len(a) = Len(b)
    /\ \A x \in {a[i] : i \in 1..Len(a)} \cup {b[i] : i \in 1..Len(b)} :
            Cardinality({i \in 1..Len(a) : a[i] = x}) = Cardinality({i \in 1..Len(b) : b[i] = x})

\* C6 (as claimed): for a fixed set of installed packages, every order in which
\* directory entries are enumerated and every permutation of nodeModulePaths
\* yields the same "all" digest.
C6_OrderIndependence ==
    \A o \in Options :
        /\ lastOp.op = "SwapEntries" => SameDigest("all", o)
        /\ \A paths \in NodeModulePathsChoices :
                IsPermutation(paths, o.nodeModulePaths) =>
                    getCurrentHash(Project, "all", [o EXCEPT !.nodeModulePaths = paths])
                        = getCurrentHash(Project, "all", o)

OutsideAllowLists(op) ==
    \/ op.op = "SetTopField" /\ op.k \notin expoPropsToHash
    \/ op.op = "SetIosField" /\ op.k \notin iosPropsToHash
    \/ op.op = "SetAndroidField" /\ op.k \notin androidPropsToHash

\* C8 (as claimed): changing the value of any config field outside the
\* allow-lists changes none of the ios, android and all digests.
C8_AllowListInsensitivity ==
    OutsideAllowLists(lastOp) => \A P \in Platforms : \A o \in Options : SameDigest(P, o)

\* C8 (amended): changing the value of any config field outside the allow-lists
\* other than ios.bundleIdentifier (which the entitlement redaction reads)
\* changes none of the ios, android and all digests.
C8_AllowListInsensitivityButBundleId ==
    (OutsideAllowLists(lastOp) /\ ~(lastOp.op = "SetIosField" /\ lastOp.k = "bundleIdentifier"))
        => \A P \in Platforms : \A o \in Options : SameDigest(P, o)

\* C8's case: a field outside the allow-lists has just changed, in a
\* configuration that is hashed.
C8_Witness ==
    /\ lastOp.op = "SetIosField" /\ lastOp.k = "buildNumber"
    /\ GetStr(GetObj(expoConfig, "ios"), "buildNumber") # GetStr(GetObj(prev.expoConfig, "ios"), "buildNumber")

RootHas(name) == <<name>> \in readdirRoot(Project, "rootDir", "rootDir")

IncludesFolders == {o \in Options : ~o.skipLocalNativeFolders}

\* C9 (as claimed): when local native folders are not skipped, changing the
\* content of a tracked file under ios or of a tracked .podspec changes the ios
\* and all digests, and of a tracked file under android the android and all
\* digests.
C9_NativeFileSensitivity ==
    \A o \in IncludesFolders :
        lastOp.op = "EditFile" =>
            /\ (UnderFolder(lastOp.p, "ios") \/ endsWith(lastOp.p, ".podspec"))
                    => ~SameDigest("ios", o) /\ ~SameDigest("all", o)
            /\ UnderFolder(lastOp.p, "android")
                    => ~SameDigest("android", o) /\ ~SameDigest("all", o)

\* C9 (amended): when local native folders are not skipped, changing the
\* content of a tracked file under ios changes the ios and all digests, of a
\* tracked file under android the android and all digests, and of a tracked
\* .podspec the ios digest when rootDir has an ios entry and the all digest
\* when rootDir has an ios or an android entry.
C9_NativeFileSensitivityWithFolder ==
    \A o \in IncludesFolders :
        lastOp.op = "EditFile" =>
            /\ UnderFolder(lastOp.p, "ios")
                    => ~SameDigest("ios", o) /\ ~SameDigest("all", o)
            /\ UnderFolder(lastOp.p, "android")
                    => ~SameDigest("android", o) /\ ~SameDigest("all", o)
            /\ (endsWith(lastOp.p, ".podspec") /\ RootHas("ios")) => ~SameDigest("ios", o)
            /\ (endsWith(lastOp.p, ".podspec") /\ (RootHas("ios") \/ RootHas("android")))
                    => ~SameDigest("all", o)

\* C9's case: a tracked .podspec outside the ios folder has just been edited
\* in a project that has an ios folder.
C9_Witness ==
    /\ lastOp.op = "EditFile" /\ endsWith(lastOp.p, ".podspec") /\ ~UnderFolder(lastOp.p, "ios")
    /\ RootHas("ios")
    /\ files[lastOp.p] # prev.files[lastOp.p]

\* C10 (as claimed): two configurations identical except that an ios
\* entitlement value contains the bundle identifier (any number of occurrences)
\* in one and has it removed in the other have the same ios and all config
\* digests.
C10_EntitlementRedaction ==
    lastOp.op = "StripBundleIdentifier" =>
        /\ getAppJsonHash(Project, "ios") = getAppJsonHash(prev, "ios")
        /\ getAppJsonHash(Project, "all") = getAppJsonHash(prev, "all")

\* The same keys with the same values, whatever the order of the keys.
RECURSIVE SameContent(_, _)
SameContent(a, b) ==
    /\ Len(a) = Len(b)
    /\ \A i \in 1..Len(a) :
            /\ HasKey(b, a[i].k)
            /\ Get(b, a[i].k).t = a[i].t
            /\ IF a[i].t = "s" THEN Get(b, a[i].k).s = a[i].s
               ELSE SameContent(a[i].o, Get(b, a[i].k).o)

\* C11 (as claimed): two configurations that differ only in the order of
\* their object keys have the same serialization, hence the same config
\* digest, for every platform.
C11_CanonicalSerialization ==
    (lastOp.op = "SwapKeys" /\ SameContent(prev.expoConfig, expoConfig)) =>
        \A P \in Platforms : getAppJsonHash(Project, P) = getAppJsonHash(prev, P)

\* C12 (as claimed): when the app configuration cannot be obtained or parsed
\* and skipAppJson is false, getCurrentHash still returns a digest, the one it
\* returns with skipAppJson = true on the same tree; the process is not ended.
C12_ConfigFailureDegrades ==
    \A P \in Platforms : \A o \in Options :
        (env.config # "ok" /\ ~o.skipAppJson) =>
            /\ getCurrentHash(Project, P, o) # ProcessExit
            /\ getCurrentHash(Project, P, o) = getCurrentHash(Project, P, [o EXCEPT !.skipAppJson = TRUE])

\* ------------------------------------------------------------------ claims on the scan

Hidden(e) == startsWith(e.name, ".")

IsScope(e) == startsWith(e.name, "@")

\* The non-hidden packages of a packages directory: <<path, name, entry>>.
PackagesOf(pr, dir) ==
    LET entries == pr.nodeModules[dir] IN
    { <<(<<dir, "/">> \o entries[i].name), entries[i].name, entries[i]>> :
            i \in {j \in 1..Len(entries) : ~Hidden(entries[j]) /\ ~IsScope(entries[j])} }
    \cup UNION { { <<(<<dir, "/">> \o entries[i].name \o <<"/">> \o entries[i].subs[k].name),
                     entries[i].name \o <<"/">> \o entries[i].subs[k].name,
                     entries[i].subs[k]>> :
                        k \in {j \in 1..Len(entries[i].subs) : ~Hidden(entries[i].subs[j])} } :
                  i \in {j \in 1..Len(entries) : IsScope(entries[j])} }

Listable(pr, paths) == \A d \in 1..Len(paths) : paths[d] \in DOMAIN pr.nodeModules

PackagesIn(pr, paths) == UNION {PackagesOf(pr, paths[d]) : d \in 1..Len(paths)}

ModulesAt(ms, path) == {i \in 1..Len(ms) : ms[i].path = path}

\* C13: getModules either returns a list holding a Module for every non-hidden
\* package of every packages directory, each with the version its manifest
\* gives, or ends the process; no package whose manifest is unreadable, and no
\* packages directory that cannot be listed, is left out of a returned list.
C13_ScanAllOrNothing ==
    \A paths \in NodeModulePathsChoices :
        \/ getModulesExits(Project, paths)
        \/ /\ Listable(Project, paths)
           /\ \A pk \in PackagesIn(Project, paths) :
                /\ pk[3].readable
                /\ \E i \in ModulesAt(getModules(Project, paths), pk[1]) :
                        getModules(Project, paths)[i].version = pk[3].version

\* C13's case: a scanned package's manifest cannot be read, and the scan ends
\* the process; another scan, of a directory without it, returns its list.
C13_Witness ==
    /\ lastOp.op = "BreakManifest" /\ ~PackageAt(lastOp.ref).readable
    /\ \E paths \in NodeModulePathsChoices : getModulesExits(Project, paths)
    /\ \E paths \in NodeModulePathsChoices :
            ~getModulesExits(Project, paths) /\ Len(getModules(Project, paths)) > 0

\* ------------------------------------------------------------------ reconciliation

\* The block without its outer test: an absent value is compared too.
checkFieldUnguarded(acc, stored, fresh) ==
    [valueExists |-> acc.valueExists \/ Truthy(stored), hasChanged |-> acc.hasChanged \/ stored # fresh]

\* The block assigning the comparison's outcome: the last field checked decides.
checkFieldLastDecides(acc, stored, fresh) ==
    IF Truthy(stored) THEN [valueExists |-> TRUE, hasChanged |-> stored # fresh] ELSE acc

\* if (stored) { valueExists = true; if (stored !== fresh) { hasChanged = true; } }
checkField(acc, stored, fresh) ==
    IF Truthy(stored)
    THEN [valueExists |-> TRUE, hasChanged |-> acc.hasChanged \/ stored # fresh]
    ELSE acc

Cwds == {"rootDir", "elsewhere"}

\* The options verifyLibrary and updateLibrary hand to generateHashes.
LibraryOptions(cwd, skipLocalNativeFolders) ==
    [ skipNodeModules |-> TRUE, skipAppJson |-> TRUE, skipLocalNativeFolders |-> skipLocalNativeFolders,
      nodeModulePaths |-> <<>>, cwd |-> cwd ]

\* readPackageJson(rootDir).nativeDependencyHash
StoredInPackage(pkg) == GetObj(pkg, "nativeDependencyHash")

\* The three blocks of a verify, in the code's order: all, ios, android.
checkStored(stored, fresh) ==
    LET a1 == checkField(NotFound, stored.all, fresh.all)
        a2 == checkField(a1, stored.ios, fresh.ios)
        a3 == checkField(a2, stored.android, fresh.android)
    IN [valueExists |-> a3.valueExists, hasChanged |-> a3.hasChanged, hashes |-> fresh]

\* readPackageJson(rootDir) inside verifyLibrary: its catch ends the process.
verifyLibraryExits(pr) == pr.env.packageJson = "fails"

verifyLibrary(pr, pkg, cwd) ==
    LET ndh == StoredInPackage(pkg)
        stored == [all |-> GetStr(ndh, "all"), ios |-> GetStr(ndh, "ios"), android |-> GetStr(ndh, "android")]
    IN checkStored(stored, generateHashes(pr, LibraryOptions(cwd, FALSE)))

\* The hashes updateLibrary generates to write: skipLocalNativeFolders is not
\* passed, so getCurrentHash takes it from GENERATE_HASH_DEFAULTS.
updateLibraryHashes(pr, cwd) ==
    generateHashes(pr, LibraryOptions(cwd, GENERATE_HASH_DEFAULTS.skipLocalNativeFolders))

\* { ...nativeDependencyHash, ios, android, all }
withHashes(o, hashes) ==
    Put(Put(Put(o, Str("ios", hashes.ios)), Str("android", hashes.android)), Str("all", hashes.all))

AppOptions == [includeAppJson : BOOLEAN, includeLocalNativeFolders : BOOLEAN]

\* The options verifyExpoApp hands to generateHashes.
ExpoAppOptions(o) ==
    [ skipNodeModules |-> GENERATE_HASH_DEFAULTS.skipNodeModules,
      skipAppJson |-> ~o.includeAppJson,
      skipLocalNativeFolders |-> ~o.includeLocalNativeFolders,
      nodeModulePaths |-> GENERATE_HASH_DEFAULTS.nodeModulePaths, cwd |-> "rootDir" ]

\* The process is ended inside verifyExpoApp: while the hashes are generated,
\* or by readExpoConfig when the stored values are read.
verifyExpoAppExits(pr, o) ==
    \/ getCurrentHash(pr, "ios", ExpoAppOptions(o)) = ProcessExit
    \/ readExpoConfigExits(pr)

\* With an undefined config the first property read throws, and the catch
\* leaves valueExists and hasChanged false.
verifyExpoApp(pr, o) ==
    LET config == readExpoConfig(pr)
        stored == IF readExpoConfigUndefined(pr) THEN NoHash
                  ELSE [ all |-> GetStr(config, "runtimeVersion"),
                         ios |-> GetStr(GetObj(config, "ios"), "runtimeVersion"),
                         android |-> GetStr(GetObj(config, "android"), "runtimeVersion") ]
    IN checkStored(stored, generateHashes(pr, ExpoAppOptions(o)))

\* ------------------------------------------------------------------ the legacy tool (rn-native-hash)

DEFAULT_PACKAGE_JSON_PROPERTY == "rn-native-hash"

deletePropsFromAppJson == {"web", "owner", "description"}

legacyHasNativeVersion(parts) == <<"ios">> \in parts \/ <<"android">> \in parts

legacyModule(name, e) ==
    [ name |-> name, path |-> <<"node_modules", "/">> \o name, version |-> e.version,
      isNative |-> legacyHasNativeVersion(e.subDirs) ]

legacyModulesOfEntry(m) ==
    IF startsWith(m.name, ".") THEN <<>>
    ELSE IF startsWith(m.name, "@") THEN
        [i \in 1..Len(m.subs) |-> legacyModule(m.name \o <<"/">> \o m.subs[i].name, m.subs[i])]
    ELSE << legacyModule(m.name, m) >>

legacyGetModules(pr) ==
    LET modules == pr.nodeModules["node_modules"]
    IN sortByName(Flat([i \in 1..Len(modules) |-> legacyModulesOfEntry(modules[i])]))

legacyGetModuleIdentity(m) == m.name \o <<"@">> \o m.version

legacyGetCurrentHash(pr, includeBuildNumbers, includeVersionNumber) ==
    LET notDeleted(e) == e.k \notin deletePropsFromAppJson /\ (includeVersionNumber \/ e.k # "version")
        without(o, k) == IF includeBuildNumbers THEN o ELSE Delete(o, k)
        section(e) ==
            IF e.t = "o" /\ e.k = "ios" THEN Obj("ios", without(e.o, "buildNumber"))
            ELSE IF e.t = "o" /\ e.k = "android" THEN Obj("android", without(e.o, "versionCode"))
            ELSE e
        kept == SelectSeq(pr.expoConfig, notDeleted)
        expo == [i \in 1..Len(kept) |-> section(kept[i])]
        appJsonContent == stringify(<< Obj("expo", expo) >>)
        isNative(m) == m.isNative
        nativeModules == SelectSeq(legacyGetModules(pr), isNative)
        nativeModuleIdentities == [i \in 1..Len(nativeModules) |-> legacyGetModuleIdentity(nativeModules[i])]
    IN hashIt(Join(nativeModuleIdentities, <<",">>) \o appJsonContent)

\* prev.split('\n')[0], or null when the file cannot be read
getHashFromFile(file) == IF file.exists THEN file.lines[1] ELSE Undefined

\* getHashFromPackage reading another property than the one asked for.
getHashFromPackageVersion(pkg, packageJsonProp) == GetStr(pkg, "version")

getHashFromPackage(pkg, packageJsonProp) == GetStr(pkg, packageJsonProp)

\* The locations the legacy tool is told to look at (a null path is FALSE).
LegacyOptions == [file : BOOLEAN, packageJson : BOOLEAN, eas : BOOLEAN, includeBuildNumbers : {FALSE}]

RECURSIVE checkProfiles(_, _, _)
checkProfiles(acc, build, hash) ==
    IF Len(build) = 0 THEN acc
    ELSE LET buildProfile == build[1]
             prevReleaseChannel == GetStr(buildProfile.o, "releaseChannel")
             newReleaseChannel == hash \o <<"-", buildProfile.k>>
             next == checkField(acc, prevReleaseChannel, newReleaseChannel)
         IN checkProfiles(next, Tail(build), hash)

checkLocations(pkg, lg, o, hash) ==
    LET a1 == IF o.file THEN checkField(NotFound, getHashFromFile(lg.file), hash) ELSE NotFound
        a2 == IF o.packageJson
              THEN checkField(a1, getHashFromPackage(pkg, DEFAULT_PACKAGE_JSON_PROPERTY), hash)
              ELSE a1
        a3 == IF o.eas THEN checkProfiles(a2, lg.eas, hash) ELSE a2
    IN [ valueExists |-> a3.valueExists, hasChanged |-> a3.hasChanged,
         hashes |-> [NoHash EXCEPT !.all = hash],
         exit |-> IF ~a3.valueExists \/ a3.hasChanged THEN 1 ELSE 0 ]

legacyVerify(pr, pkg, lg, o) ==
    checkLocations(pkg, lg, o, legacyGetCurrentHash(pr, o.includeBuildNumbers, FALSE))

\* ------------------------------------------------------------------ operations

\* An operation of the tool has run with options o.
Ran(op, o) ==
    /\ lastOp' = [ op |-> op, k |-> "", p |-> <<>>, ref |-> NoRef, o |-> o,
                   follows |-> IF lastOp.o = o THEN lastOp.op ELSE "" ]
    /\ prev' = Project
    /\ UNCHANGED <<kind, env, tasks>>

Returned(r, wrote, exit) ==
    result' = [ valueExists |-> r.valueExists, hasChanged |-> r.hasChanged, hashes |-> r.hashes,
                wrote |-> wrote, exit |-> exit ]

\* The process was ended with code 1 before the operation returned anything.
Exited == result' = [NoResult EXCEPT !.exit = 1]

VerifyLibrary ==
    /\ kind = "library"
    /\ \E cwd \in Cwds : \E r \in {verifyLibrary(Project, packageJson, cwd)} :
        /\ IF verifyLibraryExits(Project) THEN Exited ELSE Returned(r, NoHash, 0)
        /\ Ran("verifyLibrary", [cwd |-> cwd])
    /\ writes' = 0
    /\ UNCHANGED <<files, expoConfig, nodeModules, packageJson, legacy, changes>>

UpdateLibrary ==
    /\ kind = "library"
    /\ changes < MaxChanges
    /\ changes' = changes + 1
    /\ \E cwd \in Cwds :
       \E before \in {verifyLibrary(Project, packageJson, cwd)} :
       \E hashes \in {updateLibraryHashes(Project, cwd)} :
        LET nativeDependencyHash == withHashes(StoredInPackage(packageJson), hashes)
        IN /\ Ran("updateLibrary", [cwd |-> cwd])
           /\ IF verifyLibraryExits(Project)
              THEN /\ Exited
                   /\ writes' = 0
                   /\ UNCHANGED packageJson
              ELSE IF before.valueExists /\ ~before.hasChanged
              THEN /\ Returned(before, NoHash, 0)
                   /\ writes' = 0
                   /\ UNCHANGED packageJson
              ELSE /\ Returned(before, hashes, 0)
                   /\ writes' = 1
                   /\ packageJson' = Put(packageJson, Obj("nativeDependencyHash", nativeDependencyHash))
    /\ UNCHANGED <<files, expoConfig, nodeModules, legacy>>

VerifyExpoApp ==
    /\ kind = "expo-app"
    /\ \E o \in AppOptions : \E r \in {verifyExpoApp(Project, o)} :
        /\ IF verifyExpoAppExits(Project, o) THEN Exited ELSE Returned(r, NoHash, 0)
        /\ Ran("verifyExpoApp", o)
    /\ writes' = 0
    /\ UNCHANGED <<files, expoConfig, nodeModules, packageJson, legacy, changes>>

UpdateExpoApp ==
    /\ kind = "expo-app"
    /\ changes < MaxChanges
    /\ changes' = changes + 1
    /\ \E o \in AppOptions : \E before \in {verifyExpoApp(Project, o)} :
        LET ios == Put(GetObj(expoConfig, "ios"), Str("runtimeVersion", before.hashes.ios))
            android == Put(GetObj(expoConfig, "android"), Str("runtimeVersion", before.hashes.android))
            expo == Put(Put(Put(expoConfig, Str("runtimeVersion", before.hashes.all)),
                            Obj("ios", ios)), Obj("android", android))
        IN /\ Ran("updateExpoApp", o)
           /\ IF verifyExpoAppExits(Project, o)
              THEN /\ Exited
                   /\ writes' = 0
                   /\ UNCHANGED expoConfig
              ELSE IF ~before.hasChanged /\ before.valueExists
              THEN /\ Returned(before, NoHash, 0)
                   /\ writes' = 0
                   /\ UNCHANGED expoConfig
              ELSE /\ Returned(before, before.hashes, 0)
                   /\ writes' = 1
                   /\ expoConfig' = expo
    /\ UNCHANGED <<files, nodeModules, packageJson, legacy>>

\* verify's eas.json branch followed by a writeFile of the object it has
\* assigned the release channels in.
LegacyVerifyWritingBack ==
    /\ kind = "legacy-app"
    /\ \E o \in LegacyOptions : \E r \in {legacyVerify(Project, packageJson, legacy, o)} :
        /\ Returned(r, NoHash, r.exit)
        /\ Ran("verify", o)
        /\ writes' = IF o.eas THEN 1 ELSE 0
        /\ legacy' = IF o.eas
                     THEN [legacy EXCEPT !.eas =
                            [i \in 1..Len(@) |->
                                Obj(@[i].k, Put(@[i].o, Str("releaseChannel", r.hashes.all \o <<"-", @[i].k>>)))]]
                     ELSE legacy
    /\ UNCHANGED <<files, expoConfig, nodeModules, packageJson, changes>>

LegacyVerify ==
    /\ kind = "legacy-app"
    /\ \E o \in LegacyOptions : \E r \in {legacyVerify(Project, packageJson, legacy, o)} :
        /\ Returned(r, NoHash, r.exit)
        /\ Ran("verify", o)
    /\ writes' = 0
    /\ UNCHANGED <<files, expoConfig, nodeModules, packageJson, legacy, changes>>

LegacyGenerate ==
    /\ kind = "legacy-app"
    /\ changes < MaxChanges
    /\ changes' = changes + 1
    /\ \E o \in LegacyOptions :
       \E hash \in {legacyGetCurrentHash(Project, o.includeBuildNumbers, FALSE)} :
        LET prevHash == getHashFromFile(legacy.file)
            saveFile == o.file /\ (~Truthy(prevHash) \/ prevHash # hash)
            prevProp == GetStr(packageJson, DEFAULT_PACKAGE_JSON_PROPERTY)
            savePackage == o.packageJson /\ (~Truthy(prevProp) \/ prevProp # hash)
            build == [i \in 1..Len(legacy.eas) |->
                        Obj(legacy.eas[i].k,
                            Put(legacy.eas[i].o, Str("releaseChannel", hash \o <<"-", legacy.eas[i].k>>)))]
        IN /\ Ran("generate", o)
           /\ legacy' = [ file |-> IF saveFile THEN [exists |-> TRUE, lines |-> <<hash>>] ELSE legacy.file,
                          eas |-> IF o.eas THEN build ELSE legacy.eas ]
           /\ packageJson' = IF savePackage
                             THEN Put(packageJson, Str(DEFAULT_PACKAGE_JSON_PROPERTY, hash))
                             ELSE packageJson
           /\ writes' = (IF saveFile THEN 1 ELSE 0) + (IF o.eas THEN 1 ELSE 0)
                            + (IF savePackage THEN 1 ELSE 0)
           /\ result' = [ valueExists |-> FALSE, hasChanged |-> FALSE,
                          hashes |-> [NoHash EXCEPT !.all = hash],
                          wrote |-> [NoHash EXCEPT !.all = hash], exit |-> 0 ]
    /\ UNCHANGED <<files, expoConfig, nodeModules>>

\* ------------------------------------------------------------------ changes to the stored hashes
\* What an editor, a merge or a checkout does to the documents holding the hashes.

Wrong == <<"hW">>

StoredLibraryHash(P) == GetStr(StoredInPackage(packageJson), P)

StoreLibraryHash ==
    /\ kind = "library"
    /\ \E P \in Platforms :
       \E v \in {<<>>, Wrong, getCurrentHash(Project, P, LibraryOptions("rootDir", FALSE))}
                    \ {StoredLibraryHash(P)} :
        /\ packageJson' = Put(packageJson,
                Obj("nativeDependencyHash", Put(StoredInPackage(packageJson), Str(P, v))))
        /\ Changed("StoreLibraryHash", P, <<>>, NoRef)
    /\ UNCHANGED <<files, expoConfig, nodeModules, legacy>>

StoredRuntimeVersion(P) ==
    IF P = "all" THEN GetStr(expoConfig, "runtimeVersion")
    ELSE GetStr(GetObj(expoConfig, P), "runtimeVersion")

StoreRuntimeVersion ==
    /\ kind = "expo-app"
    /\ \E P \in Platforms : \E v \in {<<>>, Wrong} \ {StoredRuntimeVersion(P)} :
        /\ expoConfig' = IF P = "all" THEN Put(expoConfig, Str("runtimeVersion", v))
                         ELSE Put(expoConfig, Obj(P, Put(GetObj(expoConfig, P), Str("runtimeVersion", v))))
        /\ Changed("StoreRuntimeVersion", P, <<>>, NoRef)
    /\ UNCHANGED <<files, nodeModules, packageJson, legacy>>

\* A runtime version field holds the digest of the project as it is now (kept
\* from an earlier update, the other fields being absent or edited by hand).
KeepRuntimeVersion ==
    /\ kind = "expo-app"
    /\ \E P \in Platforms : \E o \in AppOptions :
       \E v \in {getCurrentHash(Project, P, ExpoAppOptions(o))} \ {StoredRuntimeVersion(P)} :
        /\ expoConfig' = IF P = "all" THEN Put(expoConfig, Str("runtimeVersion", v))
                         ELSE Put(expoConfig, Obj(P, Put(GetObj(expoConfig, P), Str("runtimeVersion", v))))
        /\ Changed("KeepRuntimeVersion", P, <<>>, NoRef)
    /\ UNCHANGED <<files, nodeModules, packageJson, legacy>>

SidecarFiles ==
    { [exists |-> FALSE, lines |-> <<>>], [exists |-> TRUE, lines |-> << <<>> >>],
      [exists |-> TRUE, lines |-> << Wrong, <<"note">> >>] }

StoreSidecar ==
    /\ kind = "legacy-app"
    /\ \E f \in SidecarFiles \ {legacy.file} :
        /\ legacy' = [legacy EXCEPT !.file = f]
        /\ Changed("StoreSidecar", "", <<>>, NoRef)
    /\ UNCHANGED <<files, expoConfig, nodeModules, packageJson>>

StoreLegacyProperty ==
    /\ kind = "legacy-app"
    /\ \E v \in {<<>>, Wrong} \ {GetStr(packageJson, DEFAULT_PACKAGE_JSON_PROPERTY)} :
        /\ packageJson' = Put(packageJson, Str(DEFAULT_PACKAGE_JSON_PROPERTY, v))
        /\ Changed("StoreLegacyProperty", "", <<>>, NoRef)
    /\ UNCHANGED <<files, expoConfig, nodeModules, legacy>>

StoreReleaseChannel ==
    /\ kind = "legacy-app"
    /\ \E i \in 1..Len(legacy.eas) :
       \E v \in {<<>>, Wrong} \ {GetStr(legacy.eas[i].o, "releaseChannel")} :
        /\ legacy' = [legacy EXCEPT !.eas[i] = Obj(@.k, Put(@.o, Str("releaseChannel", v)))]
        /\ Changed("StoreReleaseChannel", legacy.eas[i].k, <<>>, NoRef)
    /\ UNCHANGED <<files, expoConfig, nodeModules, packageJson>>

\* The project itself moves on: a library's tracked files are edited, an app's
\* packages are installed at another version.
EditLibraryFile == kind = "library" /\ EditFile

InstallVersion == kind # "library" /\ SetVersion

Next ==
    \/ EditLibraryFile \/ StoreLibraryHash \/ VerifyLibrary \/ UpdateLibrary
    \/ InstallVersion
    \/ StoreRuntimeVersion \/ VerifyExpoApp \/ UpdateExpoApp
    \/ StoreSidecar \/ StoreLegacyProperty \/ StoreReleaseChannel \/ LegacyVerify \/ LegacyGenerate

Spec == Init /\ [][Next]_vars

\* Build profiles are taken out of eas.json, the last ones first.
RemoveProfiles ==
    /\ kind = "legacy-app"
    /\ \E n \in 0..(Len(legacy.eas) - 1) :
        /\ legacy' = [legacy EXCEPT !.eas = SubSeq(@, 1, n)]
        /\ Changed("RemoveProfiles", "", <<>>, NoRef)
    /\ UNCHANGED <<files, expoConfig, nodeModules, packageJson>>

InitLegacyApp == Init /\ kind = "legacy-app"

NextLegacy ==
    \/ InstallVersion
    \/ StoreSidecar \/ StoreLegacyProperty \/ StoreReleaseChannel \/ RemoveProfiles
    \/ LegacyVerify \/ LegacyGenerate

\* An app using the legacy tool: generate and verify over its three storage
\* locations.
SpecLegacy == InitLegacyApp /\ [][NextLegacy]_vars

NextUpdate ==
    \/ InstallVersion
    \/ StoreRuntimeVersion \/ KeepRuntimeVersion
    \/ VerifyExpoApp \/ UpdateExpoApp

\* An Expo app whose runtime versions are partly stored, verified and updated.
SpecUpdate == InitFingerprint /\ [][NextUpdate]_vars

\* ------------------------------------------------------------------ the commands
\* The verify commands of the command line: they run the library's verify and
\* decide the exit code.

\* Verify where a missing stored hash is not an error.
exitCodeLenient(r) == IF r.hasChanged THEN 1 ELSE 0

\* if (!valueExists) process.exit(1); else if (hasChanged) process.exit(1);
\* otherwise the handler returns and the process ends with code 0.
exitCode(r) == IF ~r.valueExists THEN 1 ELSE IF r.hasChanged THEN 1 ELSE 0

ExpoAppVerifyCommand ==
    /\ kind = "expo-app"
    /\ \E o \in AppOptions : \E r \in {verifyExpoApp(Project, o)} :
        /\ IF verifyExpoAppExits(Project, o) THEN Exited ELSE Returned(r, NoHash, exitCode(r))
        /\ Ran("expo-app-verify", o)
    /\ writes' = 0
    /\ UNCHANGED <<files, expoConfig, nodeModules, packageJson, legacy, changes>>

\* dirty: `git diff HEAD` prints something; force: the --force flag.
LibraryVerifyCommand ==
    /\ kind = "library"
    /\ \E cwd \in Cwds : \E force \in BOOLEAN : \E dirty \in BOOLEAN :
       \E r \in {verifyLibrary(Project, packageJson, cwd)} :
        /\ IF ~force /\ dirty THEN Exited
           ELSE IF verifyLibraryExits(Project) THEN Exited
           ELSE Returned(r, NoHash, exitCode(r))
        /\ Ran("library-verify", [cwd |-> cwd, force |-> force, dirty |-> dirty])
    /\ writes' = 0
    /\ UNCHANGED <<files, expoConfig, nodeModules, packageJson, legacy, changes>>

\* The library's package.json can no longer be read or parsed, or can again.
PackageJsonAnswers ==
    /\ kind = "library"
    /\ env' = [env EXCEPT !.packageJson = IF @ = "ok" THEN "fails" ELSE "ok"]
    /\ Noted("PackageJsonAnswers", "", <<>>, NoRef)
    /\ UNCHANGED <<files, expoConfig, nodeModules, packageJson, legacy>>

NextCli ==
    \/ EditLibraryFile \/ StoreLibraryHash \/ PackageJsonAnswers
    \/ VerifyLibrary \/ LibraryVerifyCommand
    \/ StoreRuntimeVersion
    \/ kind = "expo-app" /\ ExpoConfigAnswers
    \/ kind = "expo-app" /\ RemoveDirectory
    \/ VerifyExpoApp \/ UpdateExpoApp \/ ExpoAppVerifyCommand

\* The verify operations and commands on projects whose documents may be
\* unreadable.
InitCli == Init /\ kind # "legacy-app"

SpecCli == InitCli /\ [][NextCli]_vars

\* The hash and list commands. argv: the platform flag ("" when it is not
\* given, which is the same as all), the --nodeModulePaths array, the hash
\* command's other flags, and the working directory the command is started in.
HashArgv ==
    [ platform : {"", "ios", "android"}, nodeModulePaths : NodeModulePathsChoices,
      skipNodeModules : BOOLEAN, includeAppJson : BOOLEAN,
      includeLocalNativeFolders : BOOLEAN, cwd : Cwds ]

\* The list command has the platform and nodeModulePaths flags only.
ListArgv ==
    [ platform : {"", "ios", "android"}, nodeModulePaths : NodeModulePathsChoices, cwd : Cwds ]

\* argv.platform || argv.p || Platform.all
platformOf(argv) == IF argv.platform = "" THEN "all" ELSE argv.platform

\* The options the hash command hands to getCurrentHash: rootDir, verbose,
\* skipNodeModules, skipAppJson and skipLocalNativeFolders. nodeModulePaths is
\* read from argv but is not among them, so getCurrentHash takes its default.
hashCommandOptions(argv) ==
    [ skipNodeModules |-> argv.skipNodeModules,
      skipAppJson |-> ~argv.includeAppJson,
      skipLocalNativeFolders |-> ~argv.includeLocalNativeFolders,
      nodeModulePaths |-> GENERATE_HASH_DEFAULTS.nodeModulePaths,
      cwd |-> argv.cwd ]

\* What the hash command writes to stdout, or ProcessExit.
hashCommand(pr, argv) == getCurrentHash(pr, platformOf(argv), hashCommandOptions(argv))

\* What the list command writes to stdout, or ProcessExit: the identities of
\* the native modules for the platform, one per line.
listCommand(pr, argv) ==
    IF getModulesExits(pr, argv.nodeModulePaths) THEN ProcessExit
    ELSE LET allModules == getModulesForPlatform(pr, platformOf(argv), argv.nodeModulePaths)
             nativeModuleIdentities ==
                [i \in 1..Len(allModules) |-> getModuleIdentity(platformOf(argv), allModules[i])]
         IN Join(nativeModuleIdentities, <<"\n">>)

Wrote(stdout) ==
    result' = [ stdout |-> stdout, exit |-> IF stdout = ProcessExit THEN 1 ELSE 0 ]

HashCommand ==
    /\ kind = "expo-app"
    /\ \E argv \in HashArgv : \E hash \in {hashCommand(Project, argv)} :
        /\ Wrote(hash)
        /\ Ran("hash", argv)
    /\ writes' = 0
    /\ UNCHANGED <<files, expoConfig, nodeModules, packageJson, legacy, changes>>

ListCommand ==
    /\ kind = "expo-app"
    /\ \E argv \in ListArgv : \E listing \in {listCommand(Project, argv)} :
        /\ Wrote(listing)
        /\ Ran("list", argv)
    /\ writes' = 0
    /\ UNCHANGED <<files, expoConfig, nodeModules, packageJson, legacy, changes>>

NextCommands ==
    \/ BreakManifest \/ RemoveDirectory
    \/ HashCommand \/ ListCommand

\* The hash and list commands on an app whose installed packages change.
SpecCommands == InitFingerprint /\ [][NextCommands]_vars

\* ------------------------------------------------------------------ claims on reconciliation

Updates == {"updateLibrary", "updateExpoApp"}

\* C1 (as claimed): when updateLibrary or updateExpoApp is invoked twice in a
\* row on the same project with the same options and nothing changed in
\* between, the second invocation performs zero file writes.
C1_IdempotentUpdate ==
    (lastOp.op \in Updates /\ lastOp.follows = lastOp.op) => writes = 0

\* C2 (as claimed): the triple updateLibrary writes is the triple verifyLibrary
\* computes for the unchanged tree, so verifyLibrary run immediately after a
\* completed updateLibrary returns valueExists = true and hasChanged = false;
\* and the written hash depends on the library's native files.
C2_UpdateThenVerifyAgree ==
    /\ (lastOp.op = "updateLibrary" /\ writes > 0)
            => result.wrote = verifyLibrary(Project, packageJson, lastOp.o.cwd).hashes
    /\ (lastOp.op = "verifyLibrary" /\ lastOp.follows = "updateLibrary")
            => result.valueExists /\ ~result.hasChanged
    /\ (lastOp.op = "EditFile" /\ (UnderFolder(lastOp.p, "ios") \/ UnderFolder(lastOp.p, "android")))
            => \A cwd \in Cwds : updateLibraryHashes(Project, cwd) # updateLibraryHashes(prev, cwd)

\* What the verify that has just run had to compare: for each location it
\* checked, the stored value and the fresh value it is compared with.
FreshFor(op) ==
    IF op.op = "verifyLibrary" THEN generateHashes(Project, LibraryOptions(op.o.cwd, FALSE))
    ELSE IF op.op = "verifyExpoApp" THEN generateHashes(Project, ExpoAppOptions(op.o))
    ELSE [NoHash EXCEPT !.all = legacyGetCurrentHash(Project, op.o.includeBuildNumbers, FALSE)]

CheckedBy(op) ==
    LET fresh == FreshFor(op) IN
    IF op.op = "verifyLibrary" THEN {<<StoredLibraryHash(P), fresh[P]>> : P \in Platforms}
    ELSE IF op.op = "verifyExpoApp" THEN {<<StoredRuntimeVersion(P), fresh[P]>> : P \in Platforms}
    ELSE (IF op.o.file THEN {<<getHashFromFile(legacy.file), fresh.all>>} ELSE {})
         \cup (IF op.o.packageJson
               THEN {<<GetStr(packageJson, DEFAULT_PACKAGE_JSON_PROPERTY), fresh.all>>} ELSE {})
         \cup (IF op.o.eas
               THEN {<<GetStr(legacy.eas[i].o, "releaseChannel"), fresh.all \o <<"-", legacy.eas[i].k>> >> :
                        i \in 1..Len(legacy.eas)}
               ELSE {})

Present(c) == c[1] # Undefined /\ c[1] # <<>>

\* C3: verifyLibrary and verifyExpoApp on a project holding no stored hash in
\* any field return valueExists = false and hasChanged = false; on a project
\* whose stored hashes are present but wrong they return valueExists = true and
\* hasChanged = true; and in every result hasChanged implies valueExists.
C3_MissingVersusChanged ==
    /\ result.hasChanged => result.valueExists
    /\ lastOp.op \in {"verifyLibrary", "verifyExpoApp"} =>
        LET checked == CheckedBy(lastOp) IN
        /\ (\A c \in checked : ~Present(c)) => ~result.valueExists /\ ~result.hasChanged
        /\ ((\E c \in checked : Present(c)) /\ (\A c \in checked : Present(c) => c[1] # c[2]))
                => result.valueExists /\ result.hasChanged

\* C3's case: verifyLibrary has just run on a package.json whose stored hash
\* is present but wrong.
C3_Witness ==
    /\ lastOp.op = "verifyLibrary"
    /\ StoredLibraryHash("all") = Wrong
    /\ result.valueExists /\ result.hasChanged

Verifies == {"verifyLibrary", "verifyExpoApp", "verify"}

\* C4: in every verify operation valueExists is true exactly when some checked
\* field or location holds a non-empty stored value, and hasChanged is true
\* exactly when some non-empty stored value differs from the fresh digest it is
\* compared with (each per-platform field with its own platform's digest).
C4_Aggregation ==
    lastOp.op \in Verifies =>
        LET checked == CheckedBy(lastOp) IN
        /\ result.valueExists <=> \E c \in checked : Present(c)
        /\ result.hasChanged <=> \E c \in checked : Present(c) /\ c[1] # c[2]

\* C4's case: a verify has just compared one stored value that equals the
\* fresh one and another that differs from it.
C4_Witness ==
    /\ lastOp.op \in Verifies
    /\ \E c \in CheckedBy(lastOp) : Present(c) /\ c[1] = c[2]
    /\ \E c \in CheckedBy(lastOp) : Present(c) /\ c[1] # c[2]
    /\ result.hasChanged

\* The verify that has just run had its fresh fingerprint.
FreshComputed ==
    \/ lastOp.op = "verifyLibrary"
    \/ lastOp.op = "verifyExpoApp" /\ getCurrentHash(Project, "ios", ExpoAppOptions(lastOp.o)) # ProcessExit

\* C14 (as claimed): provided the fresh fingerprint was computed, verifyLibrary
\* and verifyExpoApp return a {valueExists, hasChanged} result for every state
\* of the document holding the stored hashes (missing, unreadable, unparsable,
\* lacking the fields); they neither throw nor end the process.
C14_VerifyAlwaysReturns ==
    FreshComputed => result.exit = 0

\* The options with the verbose flag set to v.
WithVerbose(o, v) == [x \in DOMAIN o \cup {"verbose"} |-> IF x = "verbose" THEN v ELSE o[x]]

\* The option sets the fingerprint is computed with: every combination of the
\* skip flags (which holds what verifyExpoApp and updateExpoApp pass), and what
\* verifyLibrary and updateLibrary pass.
OptionsInUse ==
    {o \in Options : o.nodeModulePaths = GENERATE_HASH_DEFAULTS.nodeModulePaths /\ o.cwd = "rootDir"}
    \cup {LibraryOptions(cwd, skip) : cwd \in Cwds, skip \in BOOLEAN}

StoredChoices == [Platforms -> {<<>>, Wrong}]

C16_DeterminedByRootDir ==
    \A P \in Platforms : \A o \in Options :
        getCurrentHash(Project, P, [o EXCEPT !.cwd = "rootDir"])
            = getCurrentHash(Project, P, [o EXCEPT !.cwd = "elsewhere"])

VerifyCommands == {"expo-app-verify", "library-verify"}

\* The stored and fresh values the command that has just run had to compare.
CommandChecks ==
    CheckedBy([lastOp EXCEPT !.op = IF @ = "library-verify" THEN "verifyLibrary" ELSE "verifyExpoApp"])

\* The scan, or the reading of the document holding the stored hashes, is
\* impossible: packages directory missing, config or package.json unreadable.
FatalError ==
    IF lastOp.op = "library-verify" THEN env.packageJson = "fails"
    ELSE \/ env.config = "fails"
         \/ GENERATE_HASH_DEFAULTS.nodeModulePaths[1] \notin DOMAIN nodeModules

\* C17: the expo-app-verify and library-verify commands end with exit code 1
\* when no stored hash is found, when a stored hash differs from the fresh
\* fingerprint, or when a fatal scan error occurs, and end with exit code 0
\* only when a stored hash exists and every stored hash equals the fresh
\* fingerprint.
C17_VerifyExitCodes ==
    lastOp.op \in VerifyCommands =>
        \A checked \in {CommandChecks} :
            /\ result.exit \in {0, 1}
            /\ (\A c \in checked : ~Present(c)) => result.exit = 1
            /\ (\E c \in checked : Present(c) /\ c[1] # c[2]) => result.exit = 1
            /\ FatalError => result.exit = 1
            /\ result.exit = 0 =>
                    /\ \E c \in checked : Present(c)
                    /\ \A c \in checked : Present(c) => c[1] = c[2]
                    /\ ~FatalError

\* C17's case: a verify command has just ended with code 0 on a project whose
\* stored hash is the fresh fingerprint.
C17_Witness ==
    /\ lastOp.op \in VerifyCommands
    /\ result.exit = 0
    /\ \E c \in CommandChecks : Present(c) /\ c[1] = c[2]

\* Outside the given fields the two objects have the same keys with the same
\* values.
SameExcept(before, after, fields) ==
    /\ \A i \in 1..Len(before) :
            before[i].k \notin fields => HasKey(after, before[i].k) /\ Get(after, before[i].k) = before[i]
    /\ \A i \in 1..Len(after) : after[i].k \notin fields => HasKey(before, after[i].k)

\* C18: when updateLibrary or updateExpoApp writes, the only values that
\* differ between the document before and after are the fingerprint fields
\* (package.json: nativeDependencyHash.ios / android / all; app.json:
\* runtimeVersion, ios.runtimeVersion, android.runtimeVersion); every other
\* field, and every other document, keeps its previous value.
C18_UpdateFrame ==
    (lastOp.op \in Updates /\ writes > 0) =>
        /\ files = prev.files /\ nodeModules = prev.nodeModules
        /\ lastOp.op = "updateLibrary" =>
            /\ expoConfig = prev.expoConfig
            /\ SameExcept(prev.packageJson, packageJson, {"nativeDependencyHash"})
            /\ SameExcept(StoredInPackage(prev.packageJson), StoredInPackage(packageJson), Platforms)
        /\ lastOp.op = "updateExpoApp" =>
            /\ packageJson = prev.packageJson
            /\ SameExcept(prev.expoConfig, expoConfig, {"runtimeVersion", "ios", "android"})
            /\ \A k \in {"ios", "android"} :
                    SameExcept(GetObj(prev.expoConfig, k), GetObj(expoConfig, k), {"runtimeVersion"})

\* C18's case: updateExpoApp has just written the three runtimeVersion fields
\* into a config whose ios section holds other fields.
C18_Witness ==
    /\ lastOp.op = "updateExpoApp" /\ writes = 1
    /\ GetStr(expoConfig, "runtimeVersion") = result.wrote.all
    /\ GetStr(GetObj(expoConfig, "ios"), "runtimeVersion") = result.wrote.ios
    /\ GetStr(GetObj(expoConfig, "ios"), "runtimeVersion") # GetStr(GetObj(prev.expoConfig, "ios"), "runtimeVersion")
    /\ HasKey(GetObj(prev.expoConfig, "ios"), "bundleIdentifier")

\* The scans that return: every directory can be listed and every manifest read.
ReturningScans == {paths \in NodeModulePathsChoices : ~getModulesExits(Project, paths)}

\* C19: for every scanned package, isNativeIOS holds iff the package root has an
\* entry named ios, isNativeAndroid iff it has an entry named android, and the
\* combined check iff either; a scoped package is classified by its own
\* directory, whatever the scope directory holds.
C19_NativeClassification ==
    \A paths \in ReturningScans : \A ms \in {getModules(Project, paths)} :
    \A pk \in PackagesIn(Project, paths) : \A i \in ModulesAt(ms, pk[1]) :
        /\ ms[i].isNativeIOS <=> <<"ios">> \in pk[3].subDirs
        /\ ms[i].isNativeAndroid <=> <<"android">> \in pk[3].subDirs
        /\ isNativeFor("all", ms[i]) <=> (<<"ios">> \in pk[3].subDirs \/ <<"android">> \in pk[3].subDirs)
        /\ hasNativeVersion("all", pk[3].subDirs) <=> isNativeFor("all", ms[i])

\* C19's case: the scope directory holds an entry named ios, which is a package
\* without an ios folder of its own, beside a package that has one.
C19_Witness ==
    /\ <<"node_modules">> \in ReturningScans
    /\ \E ms \in {getModules(Project, <<"node_modules">>)} : \E i, j \in 1..Len(ms) :
        /\ ms[i].name = <<"@", "scope", "/", "ios">>
        /\ ~ms[i].isNativeIOS /\ ms[i].isNativeAndroid
        /\ ms[j].name = <<"@", "scope", "/", "lib-c">>
        /\ ms[j].isNativeIOS /\ ~ms[j].isNativeAndroid

project == <<files, expoConfig, nodeModules, packageJson, legacy, result, writes, lastOp, prev, changes, kind, env>>

\* The lists of paths hashFiles is called with: getFolderHash's for a platform,
\* getAppPluginHash's.
Callers == Platforms \cup {"plugins"}

relativeFilePathsOf(caller) ==
    LET keep(f) == IF caller = "plugins" THEN includeBecauseAppPlugin(f) ELSE includeNativeFile(caller, f)
    IN SelectSeq(gitLsTree(Project, "rootDir", "rootDir"), keep)

NoValue == <<>>

\* A result array filled in the order the promises settle.
collectAsCompleted(values, i, v) ==
    [values EXCEPT ![CHOOSE j \in 1..Len(values) : values[j] = NoValue /\ \A k \in 1..(j - 1) : values[k] # NoValue] = v]

\* Promise.all keeps the value of the i-th promise at index i.
collect(values, i, v) == [values EXCEPT ![i] = v]

InOrder(t, i) == \E k \in 1..Len(t.order) : t.order[k] = i

HashFilesDispatch ==
    /\ tasks.op = "none"
    /\ \E caller \in Callers : \E paths \in {relativeFilePathsOf(caller)} :
       \E failing \in {{}} \cup {{i} : i \in 1..Len(paths)} :
        tasks' = [ op |-> "hashFiles", caller |-> caller, relativeFilePaths |-> paths,
                   failing |-> failing, order |-> <<>>,
                   values |-> [i \in 1..Len(paths) |-> NoValue],
                   state |-> "pending", digest |-> NoValue ]
    /\ UNCHANGED project

\* One read settles: its promise is fulfilled with path@digest, or rejected,
\* and the first rejection rejects Promise.all.
ReadSettles ==
    /\ tasks.op = "hashFiles"
    /\ \E i \in 1..Len(tasks.relativeFilePaths) :
        /\ ~InOrder(tasks, i)
        /\ LET filePath == tasks.relativeFilePaths[i]
               fileContents == readFile(Project, "rootDir", "rootDir", filePath)
           IN tasks' =
                IF i \in tasks.failing
                THEN [tasks EXCEPT !.order = Append(@, i),
                                   !.state = IF @ = "pending" THEN "rejected" ELSE @]
                ELSE [tasks EXCEPT !.order = Append(@, i),
                                   !.values = collect(@, i, filePath \o <<"@">> \o hashIt(fileContents))]
    /\ UNCHANGED project

\* Promise.all is fulfilled once every promise is, and hashFiles returns.
HashFilesReturns ==
    /\ tasks.op = "hashFiles" /\ tasks.state = "pending"
    /\ Len(tasks.order) = Len(tasks.relativeFilePaths)
    /\ tasks' = [tasks EXCEPT !.state = "fulfilled", !.digest = hashIt(Join(tasks.values, <<",">>))]
    /\ UNCHANGED project

NextHashFiles ==
    \/ tasks.op = "none" /\ ChangeFiles
    \/ HashFilesDispatch \/ ReadSettles \/ HashFilesReturns

SpecHashFiles == InitFingerprint /\ [][NextHashFiles]_vars

\* ------------------------------------------------------------------ generateHashes, await by await
\* generateHashes starts getCurrentHash for ios, android and all and awaits
\* Promise.all of them.  Each call runs from one await to the next without
\* interruption (one thread, run to completion), and the three calls
\* interleave at their awaits: the folder digest, the config, the scan of the
\* packages, the plugin digest.

\* The option sets generateHashes is called with (by verifyExpoApp,
\* verifyLibrary and updateLibrary).
GenerateCalls ==
    {ExpoAppOptions(o) : o \in AppOptions} \cup {LibraryOptions("rootDir", FALSE)}

Awaits == <<"folder", "config", "modules", "plugins", "done">>

NoLocals == [localNativeFoldersHash |-> <<>>, appJsonContent |-> <<>>,
             nativeModuleIdentities |-> <<>>, hash |-> <<>>]

\* A readExpoConfig that hands every caller the object parsed first, which an
\* earlier caller may have pruned.
readExpoConfigMemoized(objects, pr) ==
    IF \E Q \in Platforms : objects[Q].parsed
    THEN objects[CHOOSE Q \in Platforms : objects[Q].parsed].appJson
    ELSE pr.expoConfig

\* readExpoConfig runs the command and parses its output: a new object for
\* every call, whatever objects the other calls hold.
readExpoConfigParsed(objects, pr) == pr.expoConfig

GenerateHashesDispatch ==
    /\ tasks.op = "none"
    /\ \E opts \in GenerateCalls :
        tasks' = [ op |-> "generateHashes", opts |-> opts,
                   at |-> [P \in Platforms |-> 1],
                   objects |-> [P \in Platforms |-> [parsed |-> FALSE, appJson |-> <<>>]],
                   locals |-> [P \in Platforms |-> NoLocals],
                   state |-> "pending", returned |-> NoHash ]
    /\ UNCHANGED project

\* getCurrentHash(P) runs from the await it is at to the next one.
GetCurrentHashStep(P) ==
    LET opts == tasks.opts
        await == Awaits[tasks.at[P]]
        next == [tasks EXCEPT !.at[P] = @ + 1]
        appJson == pruneIos(pruneAndroid(pruneTo(readExpoConfigParsed(tasks.objects, Project),
                                                 expoPropsToHash), P), P)
        nativeModules == getModulesForPlatform(Project, P, opts.nodeModulePaths)
        appPlugins == IF opts.skipLocalNativeFolders THEN <<>> ELSE getAppPluginHash(Project, ".", opts.cwd)
        stringToHashFrom ==
            <<"app.json@">> \o tasks.locals[P].appJsonContent
                \o <<";local@">> \o tasks.locals[P].localNativeFoldersHash
                \o <<";">> \o tasks.locals[P].nativeModuleIdentities \o <<";plugins@">> \o appPlugins
    IN
    /\ tasks.op = "generateHashes" /\ tasks.state = "pending"
    /\ await # "done"
    /\ tasks' =
        IF await = "folder" THEN
            [next EXCEPT !.locals[P].localNativeFoldersHash =
                IF opts.skipLocalNativeFolders THEN <<>>
                ELSE getFolderHash(Project, P, "rootDir", opts.cwd)]
        ELSE IF await = "config" THEN
            IF opts.skipAppJson \/ readExpoConfigUndefined(Project) THEN next
            ELSE IF readExpoConfigExits(Project) THEN [tasks EXCEPT !.state = "exited"]
            ELSE [next EXCEPT !.objects[P] = [parsed |-> TRUE, appJson |-> appJson],
                              !.locals[P].appJsonContent = hashIt(stringify(appJson))]
        ELSE IF await = "modules" THEN
            IF opts.skipNodeModules THEN next
            ELSE IF getModulesExits(Project, opts.nodeModulePaths) THEN [tasks EXCEPT !.state = "exited"]
            ELSE [next EXCEPT !.locals[P].nativeModuleIdentities =
                    Join([i \in 1..Len(nativeModules) |-> getModuleIdentity(P, nativeModules[i])], <<",">>)]
        ELSE [next EXCEPT !.locals[P].hash = hashIt(stringToHashFrom)]
    /\ UNCHANGED project

AwaitStep == \E P \in Platforms : GetCurrentHashStep(P)

\* Promise.all is fulfilled with the three digests, and generateHashes returns.
GenerateHashesReturns ==
    /\ tasks.op = "generateHashes" /\ tasks.state = "pending"
    /\ \A P \in Platforms : Awaits[tasks.at[P]] = "done"
    /\ tasks' = [tasks EXCEPT !.state = "fulfilled",
                              !.returned = [P \in Platforms |-> tasks.locals[P].hash]]
    /\ UNCHANGED project

NextGenerate ==
    \/ tasks.op = "none" /\ (SetAndroidField \/ ExpoConfigAnswers \/ RemoveDirectory)
    \/ GenerateHashesDispatch \/ AwaitStep \/ GenerateHashesReturns

SpecGenerate == InitFingerprint /\ [][NextGenerate]_vars

\* ------------------------------------------------------------------ claims on propagation

ModuleInputOps == {"SetVersion", "SetOverride"}

PlatformSectionOps == {"SetIosField", "SetEntitlement", "SetAndroidField"}

\* C21 (as claimed): a single change to a module's version or to one of its
\* overrides, or to the ios or android section of the config, that changes the
\* ios digest or the android digest also changes the all digest.
C21_PropagationToAll ==
    \A o \in Options :
        ( /\ lastOp.op \in ModuleInputOps \cup PlatformSectionOps
          /\ ~SameDigest("ios", o) \/ ~SameDigest("android", o) )
            => ~SameDigest("all", o)

\* The plugin segment of the string getCurrentHash digests for a platform.
PluginSegment(pr, platform, o) ==
    IF o.skipLocalNativeFolders THEN <<>> ELSE getAppPluginHash(pr, ".", o.cwd)

\* C22 (as claimed): changing the content of a tracked file of the project
\* whose name ends in plugin.js or plugin.ts changes the ios, android and all
\* digests (local native folders and plugins being included), and the plugin
\* segment is the same for the three platforms in one invocation.
C22_PluginSensitivity ==
    \A o \in IncludesFolders :
        /\ (lastOp.op = "EditFile" /\ includeBecauseAppPlugin(lastOp.p)) =>
                \A P \in Platforms : ~SameDigest(P, o)
        /\ \A P \in Platforms : PluginSegment(Project, P, o) = PluginSegment(Project, "all", o)

\* ------------------------------------------------------------------ claims on updates

\* C23 (as claimed): whenever updateExpoApp returns, whether it wrote or found
\* the hashes up to date, app.json holds expo.runtimeVersion equal to the
\* fresh all digest, expo.ios.runtimeVersion to the fresh ios digest and
\* expo.android.runtimeVersion to the fresh android digest, also when only
\* some of the three fields were present before.
C23_UpdateCompleteness ==
    (lastOp.op = "updateExpoApp" /\ result.exit = 0) =>
        \A P \in Platforms :
            StoredRuntimeVersion(P) = getCurrentHash(Project, P, ExpoAppOptions(lastOp.o))

\* ------------------------------------------------------------------ claims on concurrency

\* C24: hashFiles starts all its reads at once, and whatever the order in which
\* they complete, the digest it returns is the digest of the path@digest pairs
\* joined with "," in the order of relativeFilePaths; when a read fails the call
\* is rejected and returns no digest.
C24_HashFilesInInputOrder ==
    tasks.op = "hashFiles" =>
        /\ tasks.state = "fulfilled" =>
            /\ tasks.failing = {}
            /\ tasks.digest = hashFiles(Project, "rootDir", "rootDir", tasks.relativeFilePaths)
        /\ (\E i \in tasks.failing : InOrder(tasks, i)) => tasks.state = "rejected"
        /\ tasks.state # "fulfilled" => tasks.digest = NoValue
        /\ (tasks.failing # {} /\ Len(tasks.order) = Len(tasks.relativeFilePaths)) => tasks.state = "rejected"

\* C24's case: three reads completed in another order than the paths were
\* given in, the last path's first, and hashFiles has returned its digest.
C24_Witness ==
    /\ tasks.op = "hashFiles" /\ tasks.state = "fulfilled"
    /\ Len(tasks.relativeFilePaths) = 3
    /\ tasks.order = <<3, 1, 2>>

\* ------------------------------------------------------------------ claims on file selection

SelectedAsClaimed(P, f) ==
    \/ P # "android" /\ (UnderFolder(f, "ios") \/ endsWith(f, ".podspec"))
    \/ P # "ios" /\ UnderFolder(f, "android")

\* C25 (as claimed): when the folder digest is computed for platform P, a
\* tracked path is among the files digested if and only if P is not android
\* and the path lies under the ios folder or ends in .podspec, or P is not ios
\* and the path lies under the android folder; a path that only begins with
\* the characters ios or android is not digested.
C25_NativeFileSelection ==
    \A P \in Platforms :
        hasNativeVersion(P, readdirRoot(Project, "rootDir", "rootDir")) =>
            \A nativeFiles \in {relativeFilePathsOf(P)} : \A f \in DOMAIN files :
                (\E i \in 1..Len(nativeFiles) : nativeFiles[i] = f) <=> SelectedAsClaimed(P, f)

\* ------------------------------------------------------------------ claims on the legacy tool

SomeLocation(o) == o.file \/ o.packageJson \/ o.eas

VerifyAfterGenerate == lastOp.op = "verify" /\ lastOp.follows = "generate" /\ SomeLocation(lastOp.o)

\* C26 (as claimed): after generate has completed with a non-empty set of
\* storage locations, verify run with the same locations and flags on the
\* unchanged project finds valueExists = true and hasChanged = false and does
\* not end with code 1.
C26_GenerateVerifyRoundTrip ==
    VerifyAfterGenerate => result.valueExists /\ ~result.hasChanged /\ result.exit = 0

\* A location generate has put the hash in: the sidecar file, the package.json
\* property, or eas.json when it has a build profile.
HoldsAHash(o) == o.file \/ o.packageJson \/ (o.eas /\ Len(legacy.eas) > 0)

\* C26 (amended): after generate has completed with storage locations of which
\* one is the sidecar file, the package.json property, or an eas.json with at
\* least one build profile, verify run with the same locations and flags on
\* the unchanged project finds valueExists = true and hasChanged = false and
\* does not end with code 1, every profile's releaseChannel being
\* <hash>-<profile>; when eas.json is the only location and has no build
\* profile, verify finds no value and ends with code 1.
C26_RoundTripWhereAHashIsHeld ==
    VerifyAfterGenerate =>
        IF HoldsAHash(lastOp.o)
        THEN /\ result.valueExists /\ ~result.hasChanged /\ result.exit = 0
             /\ lastOp.o.eas =>
                    \A i \in 1..Len(legacy.eas) :
                        GetStr(legacy.eas[i].o, "releaseChannel") = result.hashes.all \o <<"-", legacy.eas[i].k>>
        ELSE ~result.valueExists /\ result.exit = 1

\* C26's case: verify has just run after a generate that stored the hash in
\* the three locations, eas.json holding its two profiles.
C26_Witness ==
    /\ VerifyAfterGenerate
    /\ lastOp.o.file /\ lastOp.o.packageJson /\ lastOp.o.eas
    /\ Len(legacy.eas) = 2
    /\ getHashFromFile(legacy.file) = result.hashes.all
    /\ result.valueExists

\* C27 (as claimed): when generate is run again with nothing changed, no
\* configured location whose stored value already equals the fresh hash is
\* written again.
C27_GenerateIdempotent ==
    (lastOp.op = "generate" /\ lastOp.follows = "generate") => writes = 0

\* ------------------------------------------------------------------ claims on what is written

\* C28: no run of verifyLibrary, verifyExpoApp or the legacy verify writes,
\* creates or modifies a file, whatever it finds (no stored value, a match or
\* a difference): every document is as it was before the run, so that only
\* the update and generate operations write.
C28_VerifyReadOnly ==
    lastOp.op \in Verifies =>
        /\ writes = 0
        /\ files = prev.files /\ nodeModules = prev.nodeModules
        /\ expoConfig = prev.expoConfig /\ packageJson = prev.packageJson
        /\ legacy = prev.legacy

\* C28's case: the legacy verify has just found a release channel of eas.json
\* that differs from the fresh one, and ended with code 1.
C28_Witness ==
    /\ lastOp.op = "verify" /\ lastOp.o.eas
    /\ result.valueExists /\ result.hasChanged /\ result.exit = 1
    /\ \E i \in 1..Len(legacy.eas) :
            GetStr(legacy.eas[i].o, "releaseChannel") = Wrong

\* C29: generateHashes runs the ios, android and all computations
\* concurrently, and for every interleaving of their steps (each reading the
\* project and pruning its own configuration object in place) the triple it
\* returns is the three digests getCurrentHash gives for each platform alone;
\* it ends the process only when a computation alone would.
C29_NoInterference ==
    tasks.op = "generateHashes" =>
        /\ tasks.state = "fulfilled" =>
                \A P \in Platforms : tasks.returned[P] = getCurrentHash(Project, P, tasks.opts)
        /\ \A P \in Platforms :
                (tasks.state # "exited" /\ Awaits[tasks.at[P]] = "done") =>
                    tasks.locals[P].hash = getCurrentHash(Project, P, tasks.opts)
        /\ tasks.state = "exited" =>
                \A P \in Platforms : getCurrentHash(Project, P, tasks.opts) = ProcessExit

\* C29's case: the config is hashed, the ios computation pruned its object
\* (android section deleted) before the all computation pruned its own, and
\* generateHashes has returned three different digests.
C29_Witness ==
    /\ tasks.op = "generateHashes" /\ tasks.state = "fulfilled"
    /\ ~tasks.opts.skipAppJson
    /\ ~HasKey(tasks.objects["ios"].appJson, "android")
    /\ HasKey(tasks.objects["all"].appJson, "android") /\ HasKey(tasks.objects["all"].appJson, "ios")
    /\ tasks.returned.ios # tasks.returned.android
    /\ tasks.returned.all # tasks.returned.ios


\* ------------------------------------------------------------------ claims on the commands

\* The options of a hash command with the --nodeModulePaths of argv among them.
optionsWithPaths(argv) ==
    [hashCommandOptions(argv) EXCEPT !.nodeModulePaths = argv.nodeModulePaths]

\* C30: the hash command's digest is the one computed over the packages
\* directories given by --nodeModulePaths, that is, over the native module
\* identities the list command reports for the same rootDir, platform and
\* nodeModulePaths; when those directories cannot be scanned, both end the
\* process.
C30_HashOverGivenPaths ==
    lastOp.op = "hash" =>
        /\ result.stdout = getCurrentHash(Project, platformOf(lastOp.o), optionsWithPaths(lastOp.o))
        /\ (~lastOp.o.skipNodeModules /\ listCommand(Project, lastOp.o) = ProcessExit)
                => result.stdout = ProcessExit

\* The same, for the commands run with the default --nodeModulePaths.
C30_HashOverDefaultPaths ==
    (lastOp.op = "hash" /\ lastOp.o.nodeModulePaths = GENERATE_HASH_DEFAULTS.nodeModulePaths) =>
        result.stdout = getCurrentHash(Project, platformOf(lastOp.o), optionsWithPaths(lastOp.o))

====
